---- MODULE Spec2Model ----
(***************************************************************************)
(* A model of the EDDI data-duplication pass of ASPIS                      *)
(* (src/passes/EDDI.cpp).                                                  *)
(*                                                                         *)
(* Several state machines share this module:                               *)
(*   SpecPre      EDDI::preprocess: the selection of the functions and     *)
(*                values to harden (the two fixed-point loops);            *)
(*                SpecPreFair is SpecPre with weak fairness.               *)
(*   Spec         EDDI::run from duplicateGlobals on, for one function of  *)
(*                toHardenFunctions: duplicateFnArgs, the argument-pairing *)
(*                loop, the block walk with duplicateInstruction,          *)
(*                CreateErrBB and the removal of the replaced calls.       *)
(*   SpecGlobals  duplicateGlobals alone.                                  *)
(*   SpecModule   EDDI::run followed over the whole module, phase by       *)
(*                phase; SpecVtables and SpecCtors are                     *)
(*                fixDuplicatedConstructors and fixGlobalCtors alone.      *)
(***************************************************************************)
EXTENDS Integers, Sequences, FiniteSets, TLC

(***************************************************************************)
(* Bounds of the model.                                                    *)
(***************************************************************************)
\* number of functions of the module given to preprocess
NFn == 3
\* number of values (one global and the values derived from it) in preprocess
NVal == 3
\* number of instructions of the module that use those values
MaxUsers == 2

VARIABLES
  Md,                    \* the module preprocess reads (annotations, call graph, vtables, users)
  toHardenFunctions,     \* EDDI::toHardenFunctions
  toHardenVariables,     \* EDDI::toHardenVariables
  toHardenConstructors,  \* EDDI::toHardenConstructors
  toCheckVariables,      \* the local of the variable loop
  JustAddedFns,          \* the local of the function loop
  prePc,                 \* where preprocess stands
  cfg,                   \* the build and command-line options of the pass
  FnBody,                \* the body of the function of toHardenFunctions that run() duplicates
  globals,               \* the global variables of the module
  insts,                 \* the instructions of Fn_dup, by identity
  layout,                \* the basic blocks of Fn_dup, in order, each a list of instructions
  DuplicatedInstructionMap,  \* the local of EDDI::run
  InstructionsToRemove,  \* the local of EDDI::run
  ErrBB,                 \* the template error block of Fn_dup (0: none)
  pc,                    \* where run() stands
  argI,                  \* the index i of the argument-pairing loop
  cur,                   \* the iterators of the block walk: <<block, instruction>>
  IR,                    \* the functions, vtables and llvm.global_ctors of the module run() transforms
  DuplicatedFns,         \* the local of EDDI::run
  phaseLog,              \* the phases of run() so far, in the order they were executed
  runPc,                 \* where run() stands, when followed over the whole module
  lookupFn,              \* the function a name lookup starts from
  lookupDup,             \* what getFunctionDuplicate returns for it
  lookupOrig,            \* what getFunctionFromDuplicate returns for that
  activation,            \* the argument V of the current activation of getPtrFinalValue
  depth,                 \* the number of activations of getPtrFinalValue on the stack
  usedBy,                \* the arguments <<I, Use>> of isUsedByStore
  usersLeft,             \* the users of I that the for loop of isUsedByStore has yet to visit
  worklist,              \* the local of isUsedByStore
  reachable,             \* the local of isUsedByStore
  ret                    \* what the function called has returned

preVars == <<Md, toHardenFunctions, toHardenVariables, toHardenConstructors,
             toCheckVariables, JustAddedFns, prePc>>

runVars == <<cfg, FnBody, globals, insts, layout, DuplicatedInstructionMap,
             InstructionsToRemove, ErrBB, pc, argI, cur>>

lookupVars == <<lookupFn, lookupDup, lookupOrig>>

callVars == <<activation, depth, usedBy, usersLeft, worklist, reachable, ret>>

modVars == <<IR, DuplicatedFns, phaseLog, runPc, lookupFn, lookupDup, lookupOrig,
          activation, depth, usedBy, usersLeft, worklist, reachable, ret>>

vars == <<Md, toHardenFunctions, toHardenVariables, toHardenConstructors,
          toCheckVariables, JustAddedFns, prePc,
          cfg, FnBody, globals, insts, layout, DuplicatedInstructionMap,
          InstructionsToRemove, ErrBB, pc, argI, cur,
          IR, DuplicatedFns, phaseLog, runPc, lookupFn, lookupDup, lookupOrig,
          activation, depth, usedBy, usersLeft, worklist, reachable, ret>>

\* getPtrFinalValue and isUsedByStore are not followed step by step
CallIdle ==
  /\ activation = <<>>
  /\ depth = 0
  /\ usedBy = <<>>
  /\ usersLeft = <<>>
  /\ worklist = <<>>
  /\ reachable = {}
  /\ ret = <<>>

\* no name is being looked up
LookupIdle ==
  /\ lookupFn = <<>>
  /\ lookupDup = <<>>
  /\ lookupOrig = <<>>

\* run() is not followed over the whole module
ModIdle ==
  /\ IR = <<>>
  /\ DuplicatedFns = {}
  /\ phaseLog = <<>>
  /\ runPc = "idle"
  /\ LookupIdle
  /\ CallIdle

\* run() has not started
RunIdle ==
  /\ cfg = [AlternateMemMapEnabled |-> FALSE, CHECK_AT_STORES |-> FALSE,
            CHECK_AT_CALLS |-> FALSE, CHECK_AT_BRANCH |-> FALSE,
            SELECTIVE_CHECKING |-> 0]
  /\ FnBody = <<>>
  /\ globals = <<>>
  /\ insts = <<>>
  /\ layout = <<>>
  /\ DuplicatedInstructionMap = {}
  /\ InstructionsToRemove = <<>>
  /\ ErrBB = 0
  /\ pc = "idle"
  /\ argI = 0
  /\ cur = <<0, 0>>

(***************************************************************************)
(* The module as preprocess sees it.                                       *)
(*   annot[f]   the annotation of function f in FuncAnnotations ("" when   *)
(*              f has no entry)                                            *)
(*   gannot     the annotation of the global, value 1                      *)
(*   calls[f]   the callees of the direct call sites in the body of f      *)
(*   ctor       the functions whose demangled name matches                 *)
(*              ConstructorRegex                                           *)
(*   vtable[f]  the functions in the initializer of the vtable stored by f *)
(*   minsts     the instructions that use the values 1..NVal:              *)
(*              store a, b (value a, pointer b), a = load b, call fn(a)    *)
(*              with fn = 0 for an indirect call                           *)
(***************************************************************************)
Fns == 1..NFn
PVals == 1..NVal
Annotations == {"", "to_harden", "exclude", "to_duplicate"}

\* StringRef::startswith on the annotation strings of the model, which are
\* the bare annotation names
startswith(s, prefix) == s = prefix

MInsts ==
  {[op |-> "store", a |-> v, b |-> p, fn |-> 0] : v \in PVals, p \in PVals}
  \cup {[op |-> "load", a |-> v, b |-> p, fn |-> 0] :
          v \in PVals \ {1}, p \in PVals}
  \cup {[op |-> "call", a |-> v, b |-> 0, fn |-> f] :
          v \in PVals, f \in Fns \cup {0}}

\* A value is defined once, and a load uses a value defined before it
WellFormedUsers(S) ==
  /\ \A i \in S : i.op = "load" => i.b < i.a
  /\ \A i, j \in S : (i.op = "load" /\ j.op = "load" /\ i.a = j.a) => i = j

\* Value::users()
users(md, V) ==
  {i \in md.minsts :
     \/ i.op = "store" /\ (i.a = V \/ i.b = V)
     \/ i.op = "load" /\ i.b = V
     \/ i.op = "call" /\ i.a = V}

(***************************************************************************)
(* The modules preprocess is run on.  PreInputsFn varies the annotations   *)
(* and the call graph of the functions (f calls any of: function 1, the    *)
(* next function), and one of: function 1 is a constructor whose vtable    *)
(* lists at most one function; one call instruction uses the global.       *)
(* PreInputsVar varies the instructions that use the values.               *)
(***************************************************************************)
AtMostOne(S) == {{}} \cup {{x} : x \in S}

\* the subsets of S with at most k elements
RECURSIVE SubsetsUpTo(_, _)
SubsetsUpTo(S, k) ==
  IF k = 0 THEN {{}}
  ELSE LET T == SubsetsUpTo(S, k - 1)
       IN  T \cup {t \cup {x} : t \in T, x \in S}

NoVtable == [f \in Fns |-> {}]

PreExtras ==
  {[ctor |-> {}, vtable |-> NoVtable, minsts |-> {}]}
  \cup {[ctor |-> {1}, vtable |-> [NoVtable EXCEPT ![1] = vt], minsts |-> {}] :
          vt \in AtMostOne(Fns)}
  \cup {[ctor |-> {}, vtable |-> NoVtable, minsts |-> {i}] :
          i \in {j \in MInsts : j.op = "call" /\ j.a = 1 /\ j.fn # 0}}

PreInputsFn ==
  {[annot |-> an, gannot |-> "to_harden", calls |-> cl,
    ctor |-> x.ctor, vtable |-> x.vtable, minsts |-> x.minsts] :
      an \in [Fns -> Annotations],
      cl \in {c \in [Fns -> SUBSET Fns] :
                \A f \in Fns : c[f] \subseteq {1, f + 1}},
      x \in PreExtras}

PreInputsVar ==
  {[annot |-> [f \in Fns |-> ""], gannot |-> ga,
    calls |-> [f \in Fns |-> {}], ctor |-> {},
    vtable |-> NoVtable, minsts |-> mi] :
      ga \in {"to_harden", "exclude"},
      mi \in {S \in SubsetsUpTo(MInsts, MaxUsers) : WellFormedUsers(S)}}

(***************************************************************************)
(* EDDI::preprocess                                                        *)
(***************************************************************************)
\* The explicit `to_harden` functions and values
SeedFunctions(md) == {f \in Fns : startswith(md.annot[f], "to_harden")}
SeedVariables(md) == IF startswith(md.gannot, "to_harden") THEN {1} ELSE {}

\* the loop over toCheckVariables without the case of the store
toAddVariablesOfLoads(md, THV, TCV) ==
  UNION {{i.a : i \in {u \in users(md, V) : u.op = "load"}} : V \in TCV}

\* One pass of the for loop over toCheckVariables: the values to add
toAddVariables(md, THV, TCV) ==
  UNION {
    {i.a : i \in {u \in users(md, V) :
                    /\ u.op = "store"
                    /\ u.a # V /\ u.a \notin THV /\ u.a \notin TCV}}
    \cup {i.a : i \in {u \in users(md, V) : u.op = "load"}}
    : V \in TCV}

\* ... and the functions called by an instruction that uses one of them
calledByVariables(md, TCV) ==
  UNION {{i.fn : i \in {u \in users(md, V) : u.op = "call" /\ u.fn # 0}}
           : V \in TCV}

\* getVirtualMethodsFromConstructor: the functions of the vtable Fn stores
getVirtualMethodsFromConstructor(md, Fn) == md.vtable[Fn]

\* The callees of Fn the function loop adds to toAddFns
CalledFnsMissingEntry(md, Fn, THF, JAF) ==
  {CalledFn \in md.calls[Fn] :
     /\ md.annot[CalledFn] # ""
     /\ ~(startswith(md.annot[CalledFn], "exclude")
          \/ startswith(md.annot[CalledFn], "to_duplicate"))
     /\ CalledFn \notin THF
     /\ CalledFn \notin JAF}

CalledFnsToAdd(md, Fn, THF, JAF) ==
  {CalledFn \in md.calls[Fn] :
     /\ \/ md.annot[CalledFn] = ""
        \/ ~(startswith(md.annot[CalledFn], "exclude")
             \/ startswith(md.annot[CalledFn], "to_duplicate"))
     /\ CalledFn \notin THF
     /\ CalledFn \notin JAF}

\* One pass of the for loop over JustAddedFns
toAddFns(md, THF, JAF) ==
  UNION {
    (IF Fn \in md.ctor THEN getVirtualMethodsFromConstructor(md, Fn) ELSE {})
    \cup CalledFnsToAdd(md, Fn, THF, JAF)
    : Fn \in JAF}

PreSeed ==
  /\ prePc = "seed"
  /\ toHardenFunctions' = SeedFunctions(Md)
  /\ toHardenVariables' = SeedVariables(Md)
  /\ toCheckVariables' = SeedVariables(Md)
  /\ prePc' = "vars"
  /\ UNCHANGED <<Md, toHardenConstructors, JustAddedFns>>
  /\ UNCHANGED runVars
  /\ UNCHANGED modVars

\* One iteration of while(!toCheckVariables.empty())
VarRound ==
  /\ prePc = "vars"
  /\ toCheckVariables # {}
  /\ toHardenFunctions' =
       toHardenFunctions \cup calledByVariables(Md, toCheckVariables)
  /\ toHardenVariables' = toHardenVariables \cup toCheckVariables
  /\ toCheckVariables' =
       toAddVariables(Md, toHardenVariables, toCheckVariables)
  /\ UNCHANGED <<Md, toHardenConstructors, JustAddedFns, prePc>>
  /\ UNCHANGED runVars
  /\ UNCHANGED modVars

\* The variable loop ends; JustAddedFns{toHardenFunctions}
VarDone ==
  /\ prePc = "vars"
  /\ toCheckVariables = {}
  /\ JustAddedFns' = toHardenFunctions
  /\ prePc' = "fns"
  /\ UNCHANGED <<Md, toHardenFunctions, toHardenVariables,
                 toHardenConstructors, toCheckVariables>>
  /\ UNCHANGED runVars
  /\ UNCHANGED modVars

\* One iteration of while(!JustAddedFns.empty())
FnRound ==
  /\ prePc = "fns"
  /\ JustAddedFns # {}
  /\ toHardenConstructors' = toHardenConstructors \cup (JustAddedFns \cap Md.ctor)
  /\ toHardenFunctions' = toHardenFunctions \cup JustAddedFns
  /\ JustAddedFns' = toAddFns(Md, toHardenFunctions, JustAddedFns)
  /\ UNCHANGED <<Md, toHardenVariables, toCheckVariables, prePc>>
  /\ UNCHANGED runVars
  /\ UNCHANGED modVars

FnDone ==
  /\ prePc = "fns"
  /\ JustAddedFns = {}
  /\ prePc' = "done"
  /\ UNCHANGED <<Md, toHardenFunctions, toHardenVariables,
                 toHardenConstructors, toCheckVariables, JustAddedFns>>
  /\ UNCHANGED runVars
  /\ UNCHANGED modVars

InitPre ==
  /\ Md \in PreInputsFn \cup PreInputsVar
  /\ toHardenFunctions = {}
  /\ toHardenVariables = {}
  /\ toHardenConstructors = {}
  /\ toCheckVariables = {}
  /\ JustAddedFns = {}
  /\ prePc = "seed"
  /\ RunIdle
  /\ ModIdle

NextPre == PreSeed \/ VarRound \/ VarDone \/ FnRound \/ FnDone

SpecPre == InitPre /\ [][NextPre]_vars

\* preprocess is straight-line code around its two loops: it takes its next
\* step whenever it has one
SpecPreFair == InitPre /\ [][NextPre]_vars /\ WF_vars(NextPre)

(***************************************************************************)
(* C1: after preprocess, every callee of a direct call site in the body of *)
(* a function of toHardenFunctions is in toHardenFunctions, unless it is   *)
(* annotated `exclude` or `to_duplicate`.                                  *)
(***************************************************************************)
Hardenable(md, g) ==
  ~(startswith(md.annot[g], "exclude") \/ startswith(md.annot[g], "to_duplicate"))

C1_ClosureCorrect ==
  prePc = "done" =>
    \A f \in toHardenFunctions : \A g \in Md.calls[f] :
      Hardenable(Md, g) => g \in toHardenFunctions

\* a chain f -> g -> h of direct calls from a `to_harden` f through two
\* unannotated functions, none of them reached any other way
C1_Witness ==
  /\ prePc = "done"
  /\ Md.minsts = {} /\ Md.ctor = {}
  /\ \E f, g, h \in Fns :
       /\ Cardinality({f, g, h}) = 3
       /\ Md.annot[f] = "to_harden" /\ Md.annot[g] = "" /\ Md.annot[h] = ""
       /\ Md.calls[f] = {g} /\ Md.calls[g] = {h}
       /\ {f, g, h} \subseteq toHardenFunctions

(***************************************************************************)
(*                              EDDI::run                                  *)
(***************************************************************************)
\* number of instructions in the body of the function, its terminators
\* apart
MaxInstrs == 3
\* number of parameters of the function
NParams == 2
\* number of elements of the array type of the model
ArrayNumElements == 1

(***************************************************************************)
(* Function names are strings of characters.  The module holds, when the   *)
(* bodies are duplicated: f and calc, both in toHardenFunctions and        *)
(* defined, hence f_dup and calc_dup; h, annotated `to_duplicate`; ext, a  *)
(* declaration.                                                            *)
(***************************************************************************)
NULL == <<>>
Name_f == <<"f">>
Name_calc == <<"c", "a", "l", "c">>
Name_h == <<"h">>
Name_ext == <<"e", "x", "t">>
Suffix_dup == <<"_", "d", "u", "p">>
Suffix_ret_dup == <<"_", "r", "e", "t", "_", "d", "u", "p">>

ModuleFunctions ==
  {Name_f, Name_f \o Suffix_dup, Name_calc, Name_calc \o Suffix_dup,
   Name_h, Name_ext}

\* Module::getFunction
getFunction(name) == IF name \in ModuleFunctions THEN name ELSE NULL

\* FuncAnnotations.find(Callee)->second, "" when Callee has no entry
FuncAnnotations(name) == IF name = Name_h THEN "to_duplicate" ELSE ""

\* StringRef::endswith
endswith(name, suffix) ==
  /\ Len(name) >= Len(suffix)
  /\ SubSeq(name, Len(name) - Len(suffix) + 1, Len(name)) = suffix

\* name.substr(0, name.length() - k): the length is a size_t, so that a
\* name shorter than k gives a count past the end, which substr cuts to
\* the whole string
substrDropLast(name, k) ==
  IF Len(name) < k THEN name ELSE SubSeq(name, 1, Len(name) - k)

getFunctionDuplicate(F) ==
  IF F = NULL \/ endswith(F, Suffix_dup) THEN F
  ELSE LET FnDup == getFunction(F \o Suffix_dup)
       IN  IF FnDup = NULL THEN getFunction(F \o Suffix_ret_dup) ELSE FnDup

getFunctionFromDuplicate(F) ==
  IF F = NULL \/ ~endswith(F, Suffix_dup) THEN F
  ELSE LET FnDup == getFunction(substrDropLast(F, Len(Suffix_ret_dup)))
       IN  IF FnDup = NULL
           THEN getFunction(substrDropLast(F, Len(Suffix_dup)))
           ELSE FnDup

\* isIntrinsicToDuplicate: none of the functions of the model is an intrinsic
isIntrinsicToDuplicate(callee) == FALSE

(***************************************************************************)
(* Values: <<"inst", id>> an instruction, <<"arg", s>> the argument in     *)
(* slot s (from 0) of Fn_dup, <<"param", i>> parameter i of Fn,            *)
(* <<"glob", j>> a global variable, <<"const", 0>> an integer constant,    *)
(* <<"gep", j>> the inline constant-expression GEP over global j.          *)
(* An instruction is a record: op, the type ty of its value, its operands  *)
(* ops, callee (a call's called function, NULL when the call is indirect:  *)
(* then its last operand is the called operand) and, for a terminator, its *)
(* successor blocks succs.                                                 *)
(***************************************************************************)
Inst(i) == <<"inst", i>>
Arg(s) == <<"arg", s>>
Param(i) == <<"param", i>>
Glob(j) == <<"glob", j>>
ConstInt == <<"const", 0>>
GEPExpr(j) == <<"gep", j>>

isInstruction(V) == V[1] = "inst"
isGEPConstantExpr(V) == V[1] = "gep"

\* attrs holds, for a call, the parameter attributes of each argument slot
\* (<<>>: the call has none)
I_(op, ty, ops) ==
  [op |-> op, ty |-> ty, ops |-> ops, callee |-> NULL, succs |-> <<>>, attrs |-> <<>>]
Call_(callee, ty, ops) ==
  [op |-> "call", ty |-> ty, ops |-> ops, callee |-> callee, succs |-> <<>>,
   attrs |-> <<>>]
Term_(op, ops, succs) ==
  [op |-> op, ty |-> "void", ops |-> ops, callee |-> NULL, succs |-> succs,
   attrs |-> <<>>]

\* a call of the input: its first argument is `noundef`, the others are
\* `noundef nonnull`
ParamAttrs(n) == [i \in 1..n |-> IF i = 1 THEN {"noundef"} ELSE {"noundef", "nonnull"}]
CallSite_(callee, ty, ops, n) == [Call_(callee, ty, ops) EXCEPT !.attrs = ParamAttrs(n)]

ParamType(i) == IF i = 0 THEN "int" ELSE "ptr"

(***************************************************************************)
(* The functions run() is given.  The body is a list of at most MaxInstrs  *)
(* instructions drawn from Menu; an operand is a parameter, a global, a    *)
(* constant or the nearest instruction of the wanted type.  The function   *)
(* is either one block ending in ret, or a loop:                           *)
(*    entry: br body     body: ...; br c, body, exit     exit: ret         *)
(***************************************************************************)
Menu ==
  {"alloca", "load_g", "load_p", "load_arr", "add", "phi",
   "store_vp", "store_triv", "store_g", "store_gep",
   "call_f", "call_calc", "call_h", "call_ext", "call_ind"}

MenuType(item) ==
  CASE item \in {"alloca"} -> "ptr"
    [] item \in {"load_g", "load_p", "add", "phi", "call_calc", "call_ind"} -> "int"
    [] item \in {"load_arr"} -> "arr"
    [] OTHER -> "void"

RECURSIVE SeqsUpTo(_, _)
SeqsUpTo(S, n) ==
  IF n = 0 THEN {<<>>}
  ELSE LET T == SeqsUpTo(S, n - 1)
       IN  T \cup {Append(t, x) : t \in {u \in T : Len(u) = n - 1}, x \in S}

\* the nearest instruction of type ty before position k (its id is the
\* position plus off), or dflt
Last(prog, k, tys, off, dflt) ==
  LET J == {j \in 1..(k - 1) : MenuType(prog[j]) \in tys}
  IN  IF J = {} THEN dflt
      ELSE Inst(off + CHOOSE j \in J : \A i \in J : i <= j)

\* the nearest instruction of type int after position k, or the one at k
NextInt(prog, k, off) ==
  LET J == {j \in (k + 1)..Len(prog) : MenuType(prog[j]) = "int"}
  IN  IF J = {} THEN Inst(off + k)
      ELSE Inst(off + CHOOSE j \in J : \A i \in J : j <= i)

Resolve(prog, k, off) ==
  LET item == prog[k]
      LastInt == Last(prog, k, {"int"}, off, Param(0))
      LastPtr == Last(prog, k, {"ptr"}, off, Param(1))
      LastVal == Last(prog, k, {"int", "ptr", "arr"}, off, Param(0))
  IN  CASE item = "alloca"     -> I_("alloca", "ptr", <<>>)
        [] item = "load_g"     -> I_("load", "int", <<Glob(1)>>)
        [] item = "load_p"     -> I_("load", "int", <<LastPtr>>)
        [] item = "load_arr"   -> I_("load", "arr", <<Glob(1)>>)
        [] item = "add"        -> I_("add", "int", <<LastInt, ConstInt>>)
        [] item = "phi"        -> I_("phi", "int", <<Param(0), NextInt(prog, k, off)>>)
        [] item = "store_vp"   -> I_("store", "void", <<LastInt, LastPtr>>)
        [] item = "store_triv" -> I_("store", "void", <<ConstInt, Glob(2)>>)
        [] item = "store_g"    -> I_("store", "void", <<LastVal, Glob(1)>>)
        [] item = "store_gep"  -> I_("store", "void", <<ConstInt, GEPExpr(1)>>)
        [] item = "call_f"     -> CallSite_(Name_f, "void", <<Param(0), Param(1)>>, 2)
        [] item = "call_calc"  -> CallSite_(Name_calc, "int", <<Param(0)>>, 1)
        [] item = "call_h"     -> CallSite_(Name_h, "void", <<Param(0), Param(1)>>, 2)
        [] item = "call_ext"   -> CallSite_(Name_ext, "void", <<LastPtr, Glob(1)>>, 2)
        [] item = "call_ind"   -> CallSite_(NULL, "int", <<Param(0), Param(1), LastPtr>>, 2)

\* PHI nodes stand at the head of a block that has predecessors
PhiPlacement(shape, prog) ==
  \A k \in 1..Len(prog) :
     prog[k] = "phi" => shape = "loop" /\ \A j \in 1..k : prog[j] = "phi"

Function(shape, prog) ==
  LET n == Len(prog)
  IN  IF shape = "ret"
      THEN [insts |-> [k \in 1..(n + 1) |->
                         IF k <= n THEN Resolve(prog, k, 0)
                         ELSE Term_("ret", <<>>, <<>>)],
            blocks |-> <<[k \in 1..(n + 1) |-> k]>>]
      ELSE [insts |-> [k \in 1..(n + 3) |->
                         IF k = 1 THEN Term_("br", <<>>, <<2>>)
                         ELSE IF k <= n + 1 THEN Resolve(prog, k - 1, 1)
                         ELSE IF k = n + 2
                         THEN Term_("br", <<Last(prog, n + 1, {"int"}, 1, Param(0))>>,
                                    <<2, 3>>)
                         ELSE Term_("ret", <<>>, <<>>)],
            blocks |-> <<<<1>>, [k \in 1..(n + 1) |-> k + 1], <<n + 3>>>>]

InputFunctions ==
  {Function(x[1], x[2]) :
     x \in {y \in {"ret", "loop"} \X SeqsUpTo(Menu, MaxInstrs) :
              Len(y[2]) >= 1 /\ PhiPlacement(y[1], y[2])}}

(***************************************************************************)
(* The configuration of a build: the -alternate-memmap option and the      *)
(* macros the build script sets for the EDDI, FDSC and sEDDI modes.        *)
(***************************************************************************)
Mode(alt, st, ca, br, sel) ==
  [AlternateMemMapEnabled |-> alt, CHECK_AT_STORES |-> st,
   CHECK_AT_CALLS |-> ca, CHECK_AT_BRANCH |-> br, SELECTIVE_CHECKING |-> sel]

Configs ==
  {Mode(alt, TRUE, TRUE, TRUE, 0) : alt \in BOOLEAN}
    \cup {Mode(alt, TRUE, TRUE, TRUE, 1) : alt \in BOOLEAN}
    \cup {Mode(alt, FALSE, TRUE, TRUE, 0) : alt \in BOOLEAN}

(***************************************************************************)
(* The state the operators of the pass work on: the instructions (the id   *)
(* of an instruction is its index, an erased instruction keeps its id and  *)
(* gets the op "erased"), the blocks of Fn_dup in the order of the         *)
(* function's block list, the map D and a flag raised when the pass        *)
(* leaves defined behaviour.                                               *)
(***************************************************************************)
Erased == I_("erased", "void", <<>>)

IndexOf(seq, x) == CHOOSE i \in 1..Len(seq) : seq[i] = x
InsertAt(seq, i, x) == SubSeq(seq, 1, i - 1) \o <<x>> \o SubSeq(seq, i, Len(seq))
Remove(seq, x) == SelectSeq(seq, LAMBDA y : y # x)
Range(seq) == {seq[i] : i \in 1..Len(seq)}

BlockIdx(S, id) ==
  CHOOSE b \in 1..Len(S.layout) : id \in Range(S.layout[b].insts)
BlockIdxOf(S, bid) == CHOOSE b \in 1..Len(S.layout) : S.layout[b].id = bid
getParent(S, id) == S.layout[BlockIdx(S, id)].id
BlockInsts(S, bid) == S.layout[BlockIdxOf(S, bid)].insts

isTerminator(r) == r.op \in {"br", "ret", "unreachable"}

\* BasicBlock::getTerminator, 0 when the block has none
getTerminator(S, bid) ==
  LET L == BlockInsts(S, bid)
  IN  IF L # <<>> /\ isTerminator(S.insts[L[Len(L)]]) THEN L[Len(L)] ELSE 0

successors(S, bid) ==
  LET T == getTerminator(S, bid)
  IN  IF T = 0 THEN {} ELSE Range(S.insts[T].succs)

\* a new instruction, not yet in a block; its id is Len(insts)
NewInst(S, r) == [S EXCEPT !.insts = Append(@, r)]
LastId(S) == Len(S.insts)

insertBefore(S, id, before) ==
  LET b == BlockIdx(S, before)
      L == S.layout[b].insts
  IN  [S EXCEPT !.layout[b].insts = InsertAt(L, IndexOf(L, before), id)]

insertAfter(S, id, after) ==
  LET b == BlockIdx(S, after)
      L == S.layout[b].insts
  IN  [S EXCEPT !.layout[b].insts = InsertAt(L, IndexOf(L, after) + 1, id)]

insertAtEnd(S, id, bid) ==
  [S EXCEPT !.layout[BlockIdxOf(S, bid)].insts = Append(@, id)]

eraseFromParent(S, id) ==
  LET b == BlockIdx(S, id)
  IN  [S EXCEPT !.layout[b].insts = Remove(@, id), !.insts[id] = Erased]

NewBlockId(S) ==
  1 + (CHOOSE m \in {S.layout[b].id : b \in 1..Len(S.layout)} :
         \A b \in 1..Len(S.layout) : S.layout[b].id <= m)

\* BasicBlock::Create(..., InsertBefore)
CreateBlockBefore(S, bid, before) ==
  [S EXCEPT !.layout =
     InsertAt(@, BlockIdxOf(S, before), [id |-> bid, insts |-> <<>>])]

\* setOperand writing the first operand, whatever J is
setOperandFirst(S, id, J, V) == [S EXCEPT !.insts[id].ops[1] = V]

setOperand(S, id, J, V) == [S EXCEPT !.insts[id].ops[J] = V]

\* the ids of the instructions using V, most recent use first
RECURSIVE SortDesc(_)
SortDesc(ids) ==
  IF ids = {} THEN <<>>
  ELSE LET m == CHOOSE x \in ids : \A y \in ids : y <= x
       IN  <<m>> \o SortDesc(ids \ {m})

Users(S, V) ==
  SortDesc({id \in 1..Len(S.insts) : V \in Range(S.insts[id].ops)})

\* Value::replaceNonMetadataUsesWith
replaceUsesWith(S, V, W) ==
  [S EXCEPT !.insts =
     [id \in 1..Len(S.insts) |->
        [S.insts[id] EXCEPT !.ops =
           [j \in 1..Len(S.insts[id].ops) |->
              IF S.insts[id].ops[j] = V THEN W ELSE S.insts[id].ops[j]]]]]

\* every terminator's successor `from` becomes `to`
replaceSuccessorWith(S, from, to) ==
  [S EXCEPT !.insts =
     [id \in 1..Len(S.insts) |->
        [S.insts[id] EXCEPT !.succs =
           [j \in 1..Len(S.insts[id].succs) |->
              IF S.insts[id].succs[j] = from THEN to ELSE S.insts[id].succs[j]]]]]

\* the type of a value; slot s of Fn_dup has the type of the parameter it
\* stands for
SlotParam(S, s) ==
  IF S.cfg.AlternateMemMapEnabled THEN s \div 2 ELSE s % NParams

TypeOf(S, V) ==
  CASE V[1] = "inst" -> S.insts[V[2]].ty
    [] V[1] = "arg" -> ParamType(SlotParam(S, V[2]))
    [] V[1] = "param" -> ParamType(V[2])
    [] V[1] = "const" -> "int"
    [] OTHER -> "ptr"

isPointerTy(ty) == ty = "ptr"
isArrayTy(ty) == ty = "arr"
\* the element type of the array type of the model
getArrayElementType(ty) == "ptr"

(***************************************************************************)
(* DuplicatedInstructionMap is a std::map: a set of <<key, value>> pairs   *)
(* with one pair per key; insert leaves the pair of a key that is present. *)
(***************************************************************************)
Has(D, k) == \E p \in D : p[1] = k
Find(D, k) == (CHOOSE p \in D : p[1] = k)[2]
Insert(D, k, v) == IF Has(D, k) THEN D ELSE D \cup {<<k, v>>}
EraseKey(D, k) == {p \in D : p[1] # k}

\* a test that finds no value in the map
isNeverDuplicated(D, V) == FALSE

isValueDuplicated(D, V) == \E p \in D : p[1] = V \/ p[2] = V

\* The one element of a singleton.  Only({e(x) : x \in {v}}) is e(v) with
\* v computed once: the operators below thread the state of the function
\* through the steps of the code in this way.
Only(T) == CHOOSE x \in T : TRUE

\* a new instruction at the end of block bid / before instruction `before`;
\* its id is LastId of the result
CreateAtEnd(S, r, bid) ==
  [S EXCEPT !.insts = Append(@, r),
            !.layout[BlockIdxOf(S, bid)].insts = Append(@, Len(S.insts) + 1)]

CreateBefore(S, r, before) ==
  [S EXCEPT !.insts = Append(@, r),
            !.layout[BlockIdx(S, before)].insts =
               InsertAt(@, IndexOf(@, before), Len(S.insts) + 1)]

\* the blocks the worklist of isUsedByStore visits from the blocks of W
RECURSIVE Reach(_, _)
Reach(S, W) ==
  LET N == W \cup UNION {successors(S, b) : b \in W}
  IN  IF N = W THEN W ELSE Reach(S, N)

isUsedByStore(S, I, Use) ==
  \E U \in Range(Users(S, Inst(I))) :
     /\ S.insts[U].op = "store"
     /\ U # Use
     /\ getParent(S, I) \in Reach(S, {getParent(S, U)})

\* getPtrFinalValue; a pointer that is stored, through a chain of stores,
\* into itself makes the recursion endless: Diverges
Diverges == <<"diverges", 0>>

RECURSIVE getPtrFinalValue(_, _, _)
getPtrFinalValue(S, V, seen) ==
  IF V \in seen THEN Diverges
  ELSE IF ~isPointerTy(TypeOf(S, V)) THEN NULL
  ELSE LET us == Users(S, V)
           K == {k \in 1..Len(us) :
                   S.insts[us[k]].op = "store" /\ S.insts[us[k]].ops[2] = V}
       IN  IF K = {} THEN NULL
           ELSE LET SI == S.insts[us[CHOOSE k \in K : \A j \in K : k <= j]]
                IN  IF isPointerTy(TypeOf(S, SI.ops[1]))
                    THEN getPtrFinalValue(S, SI.ops[1], seen \cup {V})
                    ELSE V

\* comparePtrs with the builder at the end of block VBB: the state and the
\* compare, NULL when there is none
comparePtrs(S, V1, V2, VBB) ==
  Only({
    IF F[1] = Diverges \/ F[2] = Diverges
    THEN [S |-> [S EXCEPT !.crash = TRUE], cmp |-> NULL]
    ELSE IF F[1] # NULL /\ F[2] # NULL /\ ~isPointerTy(TypeOf(S, F[1]))
    THEN Only({ Only({ Only({
           [S |-> S3, cmp |-> Inst(LastId(S3))]
           : S3 \in {CreateAtEnd(S2, I_("icmp", "int",
                                        <<Inst(LastId(S1)), Inst(LastId(S2))>>), VBB)} })
           : S2 \in {CreateAtEnd(S1, I_("load", TypeOf(S, F[2]), <<F[2]>>), VBB)} })
           : S1 \in {CreateAtEnd(S, I_("load", TypeOf(S, F[1]), <<F[1]>>), VBB)} })
    ELSE [S |-> S, cmp |-> NULL]
    : F \in {<<getPtrFinalValue(S, V1, {}), getPtrFinalValue(S, V2, {})>>} })

\* B.CreateCmp(ICMP_EQ, Original, Copy)
CreateCmp(S, Original, Copy, VBB) ==
  CreateAtEnd(S, I_("icmp", "int", <<Original, Copy>>), VBB)

\* the loop over the elements of an array operand (lines 688-710)
RECURSIVE CompareElements(_, _, _, _, _, _)
CompareElements(S, Original, Copy, i, VBB, Cmps) ==
  IF i >= ArrayNumElements THEN [S |-> S, Cmps |-> Cmps]
  ELSE LET ety == getArrayElementType(TypeOf(S, Original))
       IN  Only({ Only({ Only({
             IF isPointerTy(ety)
             THEN Only({
                    CompareElements(R.S, Original, Copy, i + 1, VBB,
                      IF R.cmp # NULL THEN Append(Cmps, R.cmp) ELSE Cmps)
                    : R \in {comparePtrs(S3, Inst(LastId(S1)), Inst(LastId(S2)), VBB)} })
             ELSE Only({
                    CompareElements(S4, Original, Copy, i + 1, VBB,
                                    Append(Cmps, Inst(LastId(S4))))
                    : S4 \in {CreateCmp(S3, Inst(LastId(S1)), Inst(LastId(S2)), VBB)} })
             : S3 \in {[S2 EXCEPT !.D =
                          Insert(Insert(@, Inst(LastId(S1)), Inst(LastId(S2))),
                                 Inst(LastId(S2)), Inst(LastId(S1)))]} })
             : S2 \in {CreateAtEnd(S1, I_("extractvalue", ety, <<Copy>>), VBB)} })
             : S1 \in {CreateAtEnd(S, I_("extractvalue", ety, <<Original>>), VBB)} })

\* the loop over the operands of I (lines 657-725)
RECURSIVE CompareOperands(_, _, _, _, _)
CompareOperands(S, I, J, VBB, Cmps) ==
  IF J > Len(S.insts[I].ops) THEN [S |-> S, Cmps |-> Cmps]
  ELSE LET V == S.insts[I].ops[J]
       IN  IF ~isInstruction(V)
           THEN CompareOperands(S, I, J + 1, VBB, Cmps)
           ELSE IF isPointerTy(TypeOf(S, V)) /\ ~isUsedByStore(S, V[2], I)
           THEN CompareOperands(S, I, J + 1, VBB, Cmps)
           ELSE IF ~Has(S.D, V)
           THEN CompareOperands(S, I, J + 1, VBB, Cmps)
           ELSE LET Original == V
                    Copy == Find(S.D, V)
                IN  IF isPointerTy(TypeOf(S, Original))
                    THEN Only({
                           CompareOperands(R.S, I, J + 1, VBB,
                             IF R.cmp # NULL THEN Append(Cmps, R.cmp) ELSE Cmps)
                           : R \in {comparePtrs(S, Original, Copy, VBB)} })
                    ELSE IF isArrayTy(TypeOf(S, Original))
                    THEN Only({
                           CompareOperands(R.S, I, J + 1, VBB, R.Cmps)
                           : R \in {CompareElements(S, Original, Copy, 0, VBB, Cmps)} })
                    ELSE Only({
                           CompareOperands(S1, I, J + 1, VBB,
                                           Append(Cmps, Inst(LastId(S1))))
                           : S1 \in {CreateCmp(S, Original, Copy, VBB)} })

\* B.CreateAnd(CmpInstructions): the `and` of all of them, from the left;
\* the state and the value
RECURSIVE CreateAnd(_, _, _, _, _)
CreateAnd(S, Accum, Cmps, k, VBB) ==
  IF k > Len(Cmps) THEN [S |-> S, v |-> Accum]
  ELSE Only({ CreateAnd(S1, Inst(LastId(S1)), Cmps, k + 1, VBB)
              : S1 \in {CreateAtEnd(S, I_("and", "int", <<Accum, Cmps[k]>>), VBB)} })

\* BasicBlock::splitBasicBlockBefore(&I): the instructions before I move to
\* a new block put before I's block, the terminators that led to I's block
\* lead to the new block, which ends with a branch to I's block
splitBasicBlockBefore(S, I, New) ==
  LET this == getParent(S, I)
      b == BlockIdxOf(S, this)
      L == S.layout[b].insts
      k == IndexOf(L, I)
  IN  Only({ CreateAtEnd(S2, Term_("br", <<>>, <<this>>), New)
             : S2 \in {replaceSuccessorWith(
                         [S EXCEPT !.layout =
                            SubSeq(@, 1, b - 1)
                              \o <<[id |-> New, insts |-> SubSeq(L, 1, k - 1)],
                                   [id |-> this, insts |-> SubSeq(L, k, Len(L))]>>
                              \o SubSeq(@, b + 1, Len(@))],
                         this, New)} })

\* the end of addConsistencyChecks (lines 729-743)
TerminateVerificationBB(S, I, VerificationBB, Cmps) ==
  IF Cmps # <<>>
  THEN Only({ CreateAtEnd(A.S, Term_("br", <<A.v>>, <<getParent(S, I), S.ErrBB>>),
                          VerificationBB)
              : A \in {CreateAnd(S, Cmps[1], Cmps, 2, VerificationBB)} })
  ELSE IF BlockInsts(S, VerificationBB) = <<>>
  THEN CreateAtEnd(S, Term_("br", <<>>, <<getParent(S, I)>>), VerificationBB)
  ELSE S

addConsistencyChecks(S, I) ==
  LET this == getParent(S, I)
  IN  Only({ Only({ Only({
        TerminateVerificationBB(R.S, I, NewBlockId(S1), R.Cmps)
        : R \in {CompareOperands(S4, I, 1, NewBlockId(S1), <<>>)} })
        : S4 \in {[replaceSuccessorWith(
                     CreateBlockBefore(S1, NewBlockId(S1), this), this, NewBlockId(S))
                   EXCEPT !.insts[LastId(S1)].succs[1] = NewBlockId(S1)]} })
        : S1 \in {splitBasicBlockBefore(S, I, NewBlockId(S))} })

\* BasicBlock::getFirstNonPHIOrDbgOrAlloca: the first instruction after the
\* PHI nodes and, in the entry block, after the allocas
getFirstNonPHIOrDbgOrAlloca(S, bid) ==
  LET L == BlockInsts(S, bid)
      isEntryBlock == S.layout[1].id = bid
      skipped(k) == \/ S.insts[L[k]].op = "phi"
                    \/ /\ isEntryBlock
                       /\ S.insts[L[k]].op = "alloca"
                       /\ \A j \in 1..k : S.insts[L[j]].op \in {"phi", "alloca"}
      K == {k \in 1..Len(L) : ~skipped(k)}
  IN  L[CHOOSE k \in K : \A j \in K : k <= j]

\* cloneInstr; the clone's id is LastId of the result
cloneInstr(S, I) ==
  LET IClone == Len(S.insts) + 1
      L == S.layout[BlockIdx(S, I)].insts
      at == IF ~S.cfg.AlternateMemMapEnabled /\ S.insts[I].op = "alloca"
            THEN IndexOf(L, getFirstNonPHIOrDbgOrAlloca(S, getParent(S, I)))
            ELSE IndexOf(L, I) + 1
  IN  [S EXCEPT !.insts = Append(@, S.insts[I]),
                !.layout[BlockIdx(S, I)].insts = InsertAt(@, at, IClone),
                !.D = Insert(Insert(@, Inst(I), Inst(IClone)), Inst(IClone), Inst(I))]

\* isAllocaForExceptionHandling: no function of the model is
\* __cxa_begin_catch, so the result is false; a stored value that is an
\* indirect call has no called function to take the name of
isAllocaForExceptionHandling(S, I) ==
  LET st == {e \in Range(Users(S, Inst(I))) :
               /\ S.insts[e].op = "store"
               /\ isInstruction(S.insts[e].ops[1])
               /\ S.insts[S.insts[e].ops[1][2]].op = "call"}
  IN  [res |-> FALSE,
       crash |-> \E e \in st : S.insts[S.insts[e].ops[1][2]].callee = NULL]

\* fixFuncValsPassedByReference with the builder before instruction `before`
RECURSIVE fixFuncValsPassedByReference(_, _, _, _)
fixFuncValsPassedByReference(S, I, i, before) ==
  IF i > Len(S.insts[I].ops) THEN S
  ELSE LET V == S.insts[I].ops[i]
       IN  IF isInstruction(V) /\ isPointerTy(TypeOf(S, V)) /\ Has(S.D, V)
           THEN LET Original == V
                    Copy == Find(S.D, V)
                IN  Only({ Only({ Only({
                      fixFuncValsPassedByReference(S3, I, i + 1, before)
                      : S3 \in {[S2 EXCEPT !.D =
                                   Insert(Insert(@, Inst(LastId(S1)), Inst(LastId(S1))),
                                          Inst(LastId(S2)), Inst(LastId(S2)))]} })
                      : S2 \in {CreateBefore(S1, I_("store", "void",
                                                    <<Inst(LastId(S1)), Copy>>), before)} })
                      : S1 \in {CreateBefore(S, I_("load", TypeOf(S, Original),
                                                   <<Original>>), before)} })
           ELSE fixFuncValsPassedByReference(S, I, i + 1, before)

\* the argument list of the call that replaces a call (lines 1040-1058 and
\* 1062-1084): for each argument its copy, or itself when it has none, and
\* the argument
Copies(S, as) ==
  [k \in 1..Len(as) |-> IF Has(S.D, as[k]) THEN Find(S.D, as[k]) ELSE as[k]]

RECURSIVE Interleave(_, _)
Interleave(cs, as) ==
  IF as = <<>> THEN <<>>
  ELSE <<Head(cs), Head(as)>> \o Interleave(Tail(cs), Tail(as))

\* the argument list with every argument before its copy
OriginalsFirstArgs(S, as) ==
  IF ~S.cfg.AlternateMemMapEnabled
  THEN as \o Copies(S, as)
  ELSE Interleave(as, Copies(S, as))

DuplicatedArgs(S, as) ==
  IF ~S.cfg.AlternateMemMapEnabled
  THEN Copies(S, as) \o as
  ELSE Interleave(Copies(S, as), as)

\* I.getParent()->getTerminator()->getNumSuccessors() > 1
ManySuccessors(S, I) ==
  LET T == getTerminator(S, getParent(S, I))
  IN  T # 0 /\ Len(S.insts[T].succs) > 1

NoTerminator(S, I) == getTerminator(S, getParent(S, I)) = 0

\* the guarded call of addConsistencyChecks at a store or a call
CheckSelective(S, I, enabled) ==
  IF ~enabled THEN S
  ELSE IF S.cfg.SELECTIVE_CHECKING = 1
  THEN IF NoTerminator(S, I) THEN [S EXCEPT !.crash = TRUE]
       ELSE IF ManySuccessors(S, I) THEN addConsistencyChecks(S, I) ELSE S
  ELSE addConsistencyChecks(S, I)

\* the guarded call of addConsistencyChecks at a terminator
CheckBranch(S, I) ==
  IF ~S.cfg.CHECK_AT_BRANCH THEN S
  ELSE IF NoTerminator(S, I) THEN [S EXCEPT !.crash = TRUE]
  ELSE IF ManySuccessors(S, I) THEN addConsistencyChecks(S, I) ELSE S

\* the clone of I that duplicateOperands works on, 0 when I has none
CloneOf(S, I) ==
  IF Has(S.D, Inst(I)) /\ isInstruction(Find(S.D, Inst(I)))
  THEN Find(S.D, Inst(I))[2] ELSE 0

RECURSIVE duplicateInstruction(_, _)
RECURSIVE duplicateOperands(_, _, _, _)

\* duplicateOperands from operand J on; IClone is fixed before the loop
duplicateOperands(S, I, J, IClone) ==
  IF J > Len(S.insts[I].ops) THEN S
  ELSE LET V == S.insts[I].ops[J]
       IN  Only({ Only({
             duplicateOperands(S2, I, J + 1, IClone)
             : S2 \in {IF IClone # 0 /\ Has(S1.D, V)
                       THEN setOperand(S1, IClone, J, Find(S1.D, V))
                       ELSE S1} })
             : S1 \in {IF isInstruction(V)
                       THEN IF ~isValueDuplicated(S.D, V)
                            THEN duplicateInstruction(S, V[2]).S
                            ELSE S
                       ELSE IF isGEPConstantExpr(V) /\ IClone # 0
                       THEN LET GEPOperand == S.insts[IClone].ops[J]
                                PtrOperand == Glob(GEPOperand[2])
                            IN  IF Has(S.D, PtrOperand)
                                THEN setOperand(S, IClone, J,
                                                GEPExpr(Find(S.D, PtrOperand)[2]))
                                ELSE S
                       ELSE S} })

\* the loop that transfers the parameter attributes to the new indirect
\* call: those of argument i go to the slots i and i + arg_size, or 2i and
\* 2i + 1 (from 0); a call without attributes gets none
TransferParamAttrs(S, attrs, arg_size) ==
  IF attrs = <<>> THEN <<>>
  ELSE [k \in 1..(2 * arg_size) |->
          IF ~S.cfg.AlternateMemMapEnabled
          THEN IF k <= arg_size THEN attrs[k] ELSE attrs[k - arg_size]
          ELSE attrs[(k + 1) \div 2]]

\* the call that replaces CInstr (lines 1060-1142), S being the state after
\* the checks
replaceCall(S, I, Callee) ==
  LET CInstr == S.insts[I]
      indirect == CInstr.callee = NULL
      Fn == getFunctionDuplicate(CInstr.callee)
      as == IF indirect THEN SubSeq(CInstr.ops, 1, Len(CInstr.ops) - 1)
            ELSE CInstr.ops
      args == DuplicatedArgs(S, as)
  IN  IF indirect
      THEN Only({ [S |-> replaceUsesWith(S3, Inst(I), Inst(LastId(S3))), res |-> 1]
                  : S3 \in {CreateBefore(S,
                              [Call_(NULL, CInstr.ty,
                                     Append(args, CInstr.ops[Len(CInstr.ops)]))
                                 EXCEPT !.attrs = TransferParamAttrs(S, CInstr.attrs, Len(as))],
                              I)} })
      ELSE IF Fn # NULL /\ Fn # Callee
      THEN Only({ [S |-> replaceUsesWith(S3, Inst(I), Inst(LastId(S3))), res |-> 1]
                  : S3 \in {CreateBefore(S, Call_(Fn, CInstr.ty, args), I)} })
      ELSE [S |-> S, res |-> 0]

\* the call branch of duplicateInstruction (lines 991-1147)
duplicateCall(S, I) ==
  LET Callee == getFunctionFromDuplicate(S.insts[I].callee)
  IN  IF startswith(FuncAnnotations(Callee), "to_duplicate")
         \/ isIntrinsicToDuplicate(S.insts[I].callee)
      THEN Only({ Only({
             [S |-> CheckSelective(S2, I, S.cfg.CHECK_AT_CALLS), res |-> 0]
             : S2 \in {duplicateOperands(S1, I, 1, CloneOf(S1, I))} })
             : S1 \in {cloneInstr(S, I)} })
      ELSE Only({ Only({
             LET L == BlockInsts(S2, getParent(S2, I))
                 Next_ == L[IndexOf(L, I) + 1]
                 indirect == S2.insts[I].callee = NULL
                 Fn == getFunctionDuplicate(S2.insts[I].callee)
             IN  IF S2.crash THEN [S |-> S2, res |-> 0]
                 ELSE IF Fn # NULL \/ indirect THEN replaceCall(S2, I, Callee)
                 ELSE [S |-> fixFuncValsPassedByReference(S2, I, 1, Next_), res |-> 0]
             : S2 \in {CheckSelective(S1, I, S.cfg.CHECK_AT_CALLS)} })
             : S1 \in {duplicateOperands(S, I, 1, CloneOf(S, I))} })

\* the store branch of duplicateInstruction (lines 953-973)
duplicateStore(S, I) ==
  Only({ Only({ Only({
    IF S3.insts[LastId(S1)].ops = S3.insts[I].ops
    THEN [S |-> [S3 EXCEPT
                   !.layout[BlockIdx(S3, LastId(S1))].insts = Remove(@, LastId(S1)),
                   !.insts[LastId(S1)] = Erased,
                   !.D = EraseKey(@, Inst(I))],
          res |-> 0]
    ELSE [S |-> S3, res |-> 0]
    : S3 \in {CheckSelective(S2, I, S.cfg.CHECK_AT_STORES)} })
    : S2 \in {duplicateOperands(S1, I, 1, CloneOf(S1, I))} })
    : S1 \in {cloneInstr(S, I)} })

duplicateInstruction(S, I) ==
  IF S.crash \/ isValueDuplicated(S.D, Inst(I)) THEN [S |-> S, res |-> 0]
  ELSE LET op == S.insts[I].op
       IN  CASE op = "alloca" ->
                  LET E == isAllocaForExceptionHandling(S, I)
                  IN  IF E.crash THEN [S |-> [S EXCEPT !.crash = TRUE], res |-> 0]
                      ELSE IF ~E.res THEN [S |-> cloneInstr(S, I), res |-> 0]
                      ELSE [S |-> S, res |-> 0]
             [] op \in {"add", "load", "icmp", "and", "phi", "extractvalue"} ->
                  Only({ [S |-> duplicateOperands(S1, I, 1, CloneOf(S1, I)), res |-> 0]
                         : S1 \in {cloneInstr(S, I)} })
             [] op = "store" -> duplicateStore(S, I)
             [] op \in {"br", "ret"} ->
                  Only({ [S |-> CheckBranch(S1, I), res |-> 0]
                         : S1 \in {duplicateOperands(S, I, 1, CloneOf(S, I))} })
             [] op = "call" -> duplicateCall(S, I)
             [] OTHER -> [S |-> S, res |-> 0]

(***************************************************************************)
(* The steps of EDDI::run on one function Fn of toHardenFunctions          *)
(***************************************************************************)
St ==
  [insts |-> insts, layout |-> layout, D |-> DuplicatedInstructionMap,
   ErrBB |-> ErrBB, cfg |-> cfg, crash |-> FALSE]

\* the globals of the module: g1 is an ordinary variable, g2 is annotated
\* `exclude`
\* what the constructor of the copy is given and the two setters set: value
\* type, linkage, initializer (<<>>: none), alignment, DSO-locality,
\* thread-local mode and address space
GVProps(k) ==
  IF k = 1
  THEN [valueType |-> "i32", linkage |-> "external", initializer |-> <<0>>,
        align |-> 4, dsoLocal |-> TRUE, tlsMode |-> "NotThreadLocal", addrSpace |-> 0]
  ELSE [valueType |-> "ptr", linkage |-> "internal", initializer |-> <<>>,
        align |-> 8, dsoLocal |-> FALSE, tlsMode |-> "GeneralDynamic", addrSpace |-> 1]

GV_(isConstant, annot, endsWithDup) ==
  [isConstant |-> isConstant, annot |-> annot, endsWithDup |-> endsWithDup,
   isMetadataInfo |-> FALSE, isReservedName |-> FALSE, props |-> GVProps(1)]

ModuleGlobals == <<GV_(FALSE, "", FALSE), GV_(FALSE, "exclude", FALSE)>>

\* duplicateGlobals over the list GVars taken at its start, from index j
\* duplicateGlobals recording each pair in one direction only
RECURSIVE duplicateGlobalsOneWay(_, _, _, _)
duplicateGlobalsOneWay(G, D, GVars, j) ==
  IF j > Len(GVars) THEN [globals |-> G, D |-> D]
  ELSE LET GV == GVars[j]
       IN  IF ~(GV.isConstant \/ GV.endsWithDup \/ GV.isMetadataInfo
                  \/ GV.isReservedName
                  \/ GV.annot \in {"exclude", "runtime_sig", "run_adj_sig"})
           THEN duplicateGlobalsOneWay(
                  Append(G, [isConstant |-> FALSE, annot |-> "", endsWithDup |-> TRUE,
                             isMetadataInfo |-> FALSE, isReservedName |-> FALSE,
                             props |-> GV.props]),
                  Insert(D, Glob(j), Glob(Len(G) + 1)), GVars, j + 1)
           ELSE duplicateGlobalsOneWay(G, D, GVars, j + 1)

RECURSIVE duplicateGlobalsFrom(_, _, _, _)
duplicateGlobalsFrom(G, D, GVars, j) ==
  IF j > Len(GVars) THEN [globals |-> G, D |-> D]
  ELSE LET GV == GVars[j]
           toExclude == startswith(GV.annot, "exclude")
       IN  IF startswith(GV.annot, "runtime_sig") \/ startswith(GV.annot, "run_adj_sig")
           THEN duplicateGlobalsFrom(G, D, GVars, j + 1)
           ELSE IF ~(GV.isConstant \/ GV.endsWithDup \/ GV.isMetadataInfo
                       \/ GV.isReservedName \/ toExclude)
           THEN LET GVCopy == [isConstant |-> FALSE, annot |-> "",
                               endsWithDup |-> TRUE, isMetadataInfo |-> FALSE,
                               isReservedName |-> GV.isReservedName,
                               props |-> GV.props]
                    c == Len(G) + 1
                IN  duplicateGlobalsFrom(Append(G, GVCopy),
                                         Insert(Insert(D, Glob(j), Glob(c)), Glob(c), Glob(j)),
                                         GVars, j + 1)
           ELSE duplicateGlobalsFrom(G, D, GVars, j + 1)

DuplicateGlobals ==
  /\ pc = "start"
  /\ LET R == duplicateGlobalsFrom(globals, DuplicatedInstructionMap, globals, 1)
     IN  /\ globals' = R.globals
         /\ DuplicatedInstructionMap' = R.D
  /\ pc' = "fnargs"
  /\ UNCHANGED <<cfg, FnBody, insts, layout, InstructionsToRemove, ErrBB, argI, cur>>
  /\ UNCHANGED preVars
  /\ UNCHANGED modVars

\* the slot of Fn_dup that the body cloned from Fn reads parameter i from
ParamSlot(i) == IF ~cfg.AlternateMemMapEnabled THEN NParams + i ELSE i * 2

\* the value that stands for V in the body cloned by CloneFunctionInto
RemapParam(V) == IF V[1] = "param" THEN Arg(ParamSlot(V[2])) ELSE V

\* duplicateFnArgs: Fn_dup has twice the parameters and a copy of the body
\* of Fn in which parameter i is argument ParamSlot(i)
DuplicateFnArgs ==
  /\ pc = "fnargs"
  /\ insts' = [id \in 1..Len(FnBody.insts) |->
                 [FnBody.insts[id] EXCEPT !.ops =
                    [j \in 1..Len(FnBody.insts[id].ops) |->
                       RemapParam(FnBody.insts[id].ops[j])]]]
  /\ layout' = [b \in 1..Len(FnBody.blocks) |->
                  [id |-> b, insts |-> FnBody.blocks[b]]]
  /\ pc' = "enter"
  /\ UNCHANGED <<cfg, FnBody, globals, DuplicatedInstructionMap,
                 InstructionsToRemove, ErrBB, argI, cur>>
  /\ UNCHANGED preVars
  /\ UNCHANGED modVars

\* the head of the loop over DuplicatedFns: the empty block ErrBB is put at
\* the end of Fn_dup
EnterFunction ==
  /\ pc = "enter"
  /\ ErrBB' = NewBlockId(St)
  /\ layout' = Append(layout, [id |-> ErrBB', insts |-> <<>>])
  /\ argI' = 0
  /\ pc' = "args"
  /\ UNCHANGED <<cfg, FnBody, globals, insts, DuplicatedInstructionMap,
                 InstructionsToRemove, cur>>
  /\ UNCHANGED preVars
  /\ UNCHANGED modVars

\* the loop over the users of Arg (lines 1309-1315)
RECURSIVE duplicateUsers(_, _, _)
duplicateUsers(S, us, k) ==
  IF k > Len(us) THEN S
  ELSE Only({ duplicateUsers(S1, us, k + 1)
              : S1 \in {duplicateInstruction(S, us[k]).S} })

\* the loop over the arguments of Fn_dup from i on (lines 1291-1316)
RECURSIVE pairArguments(_, _)
pairArguments(S, i) ==
  IF i >= 2 * NParams THEN S
  ELSE IF ~S.cfg.AlternateMemMapEnabled /\ i >= (2 * NParams) \div 2 THEN S
  ELSE IF S.cfg.AlternateMemMapEnabled /\ i % 2 = 1 THEN pairArguments(S, i + 1)
  ELSE LET A == Arg(i)
           ArgClone == IF ~S.cfg.AlternateMemMapEnabled
                       THEN Arg(i + (2 * NParams) \div 2) ELSE Arg(i + 1)
       IN  Only({ Only({ pairArguments(S2, i + 1)
                  : S2 \in {duplicateUsers(S1, Users(S1, A), 1)} })
                  : S1 \in {[S EXCEPT !.D = Insert(Insert(@, A, ArgClone),
                                                   ArgClone, A)]} })

\* the first instruction of the first block at or after index b that has
\* one, as <<block, instruction>>; <<0, 0>> when there is none
RECURSIVE FirstFrom(_, _)
FirstFrom(S, b) ==
  IF b > Len(S.layout) THEN <<0, 0>>
  ELSE IF S.layout[b].insts # <<>> THEN <<S.layout[b].id, S.layout[b].insts[1]>>
  ELSE FirstFrom(S, b + 1)

PairArguments ==
  /\ pc = "args"
  /\ \E S \in {pairArguments(St, argI)} :
         /\ insts' = S.insts
         /\ layout' = S.layout
         /\ DuplicatedInstructionMap' = S.D
         /\ argI' = 2 * NParams
         /\ IF S.crash
            THEN pc' = "undefined" /\ cur' = cur
            ELSE pc' = "walk" /\ cur' = FirstFrom(S, 1)
  /\ UNCHANGED <<cfg, FnBody, globals, InstructionsToRemove, ErrBB>>
  /\ UNCHANGED preVars
  /\ UNCHANGED modVars

\* one turn of the walk over the blocks and their instructions (lines
\* 1318-1333), at instruction cur[2] within the turn of block cur[1] of the
\* outer loop.  The inner loop ends at the end of block cur[1]: when the
\* instruction was moved to another block, running off that block's end is
\* undefined.
WalkStep ==
  /\ pc = "walk"
  /\ \E R \in {IF ~isValueDuplicated(DuplicatedInstructionMap, Inst(cur[2]))
               THEN duplicateInstruction(St, cur[2])
               ELSE [S |-> St, res |-> 0]} :
     LET I == cur[2]
         S == R.S
         L == BlockInsts(S, getParent(S, I))
         k == IndexOf(L, I)
         nxt == FirstFrom(S, BlockIdxOf(S, cur[1]) + 1)
     IN  /\ insts' = S.insts
         /\ layout' = S.layout
         /\ DuplicatedInstructionMap' = S.D
         /\ InstructionsToRemove' =
              IF R.res # 0 THEN Append(InstructionsToRemove, I)
              ELSE InstructionsToRemove
         /\ IF S.crash THEN pc' = "undefined" /\ cur' = cur
            ELSE IF k < Len(L) THEN pc' = "walk" /\ cur' = <<cur[1], L[k + 1]>>
            ELSE IF getParent(S, I) # cur[1] THEN pc' = "undefined" /\ cur' = cur
            ELSE IF nxt = <<0, 0>> THEN pc' = "errbb" /\ cur' = nxt
            ELSE pc' = "walk" /\ cur' = nxt
  /\ UNCHANGED <<cfg, FnBody, globals, ErrBB, argI>>
  /\ UNCHANGED preVars
  /\ UNCHANGED modVars

Name_DataCorruption_Handler ==
  <<"D", "a", "t", "a", "C", "o", "r", "r", "u", "p", "t", "i", "o", "n",
    "_", "H", "a", "n", "d", "l", "e", "r">>

\* the loop over errBranches (lines 1420-1435): a copy of ErrBB before the
\* block of each branch that leads to ErrBB
\* every branch of errBranches led to one and the same copy of ErrBB
cloneErrBBShared(S, errBranches, k) ==
  IF errBranches = <<>> THEN S
  ELSE LET ErrBBCopy == NewBlockId(S)
       IN  Only({ Only({ Only({
             [S3 EXCEPT !.insts =
                [id \in 1..Len(@) |->
                   [@[id] EXCEPT !.succs =
                      [j \in 1..Len(@) |-> IF @[j] = S.ErrBB THEN ErrBBCopy ELSE @[j]]]]]
             : S3 \in {CreateAtEnd(S2, Term_("unreachable", <<>>, <<>>), ErrBBCopy)} })
             : S2 \in {CreateAtEnd(S1, Call_(Name_DataCorruption_Handler, "void", <<>>),
                                   ErrBBCopy)} })
             : S1 \in {CreateBlockBefore(S, ErrBBCopy, getParent(S, errBranches[1]))} })

RECURSIVE cloneErrBB(_, _, _)
cloneErrBB(S, errBranches, k) ==
  IF k > Len(errBranches) THEN S
  ELSE LET I == errBranches[k]
           ErrBBCopy == NewBlockId(S)
       IN  Only({ Only({ Only({
             cloneErrBB([S3 EXCEPT !.insts[I].succs =
                           [j \in 1..Len(@) |->
                              IF @[j] = S.ErrBB THEN ErrBBCopy ELSE @[j]]],
                        errBranches, k + 1)
             : S3 \in {CreateAtEnd(S2, Term_("unreachable", <<>>, <<>>), ErrBBCopy)} })
             : S2 \in {CreateAtEnd(S1, Call_(Name_DataCorruption_Handler, "void", <<>>),
                                   ErrBBCopy)} })
             : S1 \in {CreateBlockBefore(S, ErrBBCopy, getParent(S, I))} })

CreateErrBB ==
  /\ pc = "errbb"
  /\ \E S1 \in {CreateAtEnd(St, Call_(Name_DataCorruption_Handler, "void", <<>>),
                              ErrBB)} :
     \E S2 \in {CreateAtEnd(S1, Term_("unreachable", <<>>, <<>>), ErrBB)} :
     \E S3 \in {cloneErrBB(S2, SortDesc({id \in 1..Len(S2.insts) :
                                           ErrBB \in Range(S2.insts[id].succs)}), 1)} :
       /\ insts' = [S3.insts EXCEPT ![LastId(S1)] = Erased, ![LastId(S2)] = Erased]
       /\ layout' = SelectSeq(S3.layout, LAMBDA B : B.id # ErrBB)
  /\ pc' = "remove"
  /\ UNCHANGED <<cfg, FnBody, globals, DuplicatedInstructionMap,
                 InstructionsToRemove, ErrBB, argI, cur>>
  /\ UNCHANGED preVars
  /\ UNCHANGED modVars

RECURSIVE eraseAll(_, _, _)
eraseAll(S, rm, k) ==
  IF k > Len(rm) THEN S
  ELSE Only({ eraseAll(S1, rm, k + 1) : S1 \in {eraseFromParent(S, rm[k])} })

\* the instructions marked for removal are erased (lines 1340-1342)
RemoveInstructions ==
  /\ pc = "remove"
  /\ \E S \in {eraseAll(St, InstructionsToRemove, 1)} :
         /\ insts' = S.insts
         /\ layout' = S.layout
  /\ pc' = "done"
  /\ UNCHANGED <<cfg, FnBody, globals, DuplicatedInstructionMap,
                 InstructionsToRemove, ErrBB, argI, cur>>
  /\ UNCHANGED preVars
  /\ UNCHANGED modVars

\* preprocess has run
PreDone ==
  /\ Md = [annot |-> [f \in Fns |-> "to_harden"], gannot |-> "to_harden",
           calls |-> [f \in Fns |-> {}], ctor |-> {}, vtable |-> NoVtable,
           minsts |-> {}]
  /\ toHardenFunctions = Fns
  /\ toHardenVariables = {}
  /\ toHardenConstructors = {}
  /\ toCheckVariables = {}
  /\ JustAddedFns = {}
  /\ prePc = "done"

Init ==
  /\ PreDone
  /\ cfg \in Configs
  /\ FnBody \in InputFunctions
  /\ globals = ModuleGlobals
  /\ insts = <<>>
  /\ layout = <<>>
  /\ DuplicatedInstructionMap = {}
  /\ InstructionsToRemove = <<>>
  /\ ErrBB = 0
  /\ pc = "start"
  /\ argI = 0
  /\ cur = <<0, 0>>
  /\ ModIdle

Next ==
  \/ DuplicateGlobals
  \/ DuplicateFnArgs
  \/ EnterFunction
  \/ PairArguments
  \/ WalkStep
  \/ CreateErrBB
  \/ RemoveInstructions

Spec == Init /\ [][Next]_vars

(***************************************************************************)
(* duplicateGlobals alone, on the modules of GlobalInputs: at most         *)
(* MaxGlobals global variables, each with one of the two sets of           *)
(* properties and at most one of the reasons not to be duplicated.         *)
(***************************************************************************)
MaxGlobals == 3

GVKinds ==
  {"plain", "to_harden", "constant", "dup", "metadata", "reserved",
   "exclude", "runtime_sig", "run_adj_sig"}

GVInput(kind, k) ==
  [isConstant |-> kind = "constant",
   annot |-> IF kind \in {"to_harden", "exclude", "runtime_sig", "run_adj_sig"}
             THEN kind ELSE "",
   endsWithDup |-> kind = "dup",
   isMetadataInfo |-> kind = "metadata",
   isReservedName |-> kind = "reserved",
   props |-> GVProps(k)]

GlobalInputs ==
  UNION {[1..n -> {GVInput(kind, k) : kind \in GVKinds, k \in 1..2}] : n \in 1..MaxGlobals}

InitGlobals ==
  /\ PreDone
  /\ cfg \in {Mode(alt, TRUE, TRUE, TRUE, 0) : alt \in BOOLEAN}
  /\ FnBody = <<>>
  /\ globals \in GlobalInputs
  /\ insts = <<>>
  /\ layout = <<>>
  /\ DuplicatedInstructionMap = {}
  /\ InstructionsToRemove = <<>>
  /\ ErrBB = 0
  /\ pc = "start"
  /\ argI = 0
  /\ cur = <<0, 0>>
  /\ ModIdle

SpecGlobals == InitGlobals /\ [][DuplicateGlobals]_vars

(***************************************************************************)
(*                 EDDI::run, followed over the whole module               *)
(*                                                                         *)
(* IR holds what the module-level steps of run() read and write:           *)
(*   functions     the names of the functions of the module                *)
(*   declarations  those of them that have no body                         *)
(*   stores        for each function, the value operands of the store      *)
(*                 instructions of its body, in order                      *)
(*   vtables       the global variables that hold a vtable, in order       *)
(*   GlobalCtors   the global variable llvm.global_ctors (NULL: none)      *)
(* An element of a constant array is a record: isFunction tells a function *)
(* from any other constant, name is its name.                              *)
(***************************************************************************)
\* number of slots of a vtable
MaxSlots == 3
\* number of entries of llvm.global_ctors
MaxCtors == 2

Name_A == <<"A">>
Name_B == <<"B">>
Name_m == <<"m">>
Name_q == <<"q">>
Name_q_ret == <<"q", "_", "r", "e", "t">>
Name_vtable == <<"v", "t", "a", "b", "l", "e">>
Name_typeinfo == <<"t", "y", "p", "e", "i", "n", "f", "o">>
Name_global_ctors == <<"l", "l", "v", "m", ".", "g", "l", "o", "b", "a", "l", "_", "c", "t", "o", "r", "s">>

FunctionElem(name) == [isFunction |-> TRUE, name |-> name]
ConstantElem(name) == [isFunction |-> FALSE, name |-> name]

\* the name of the vtable of class c, demangled: "vtable for c"
VTableOf(c) == Name_vtable \o c

\* std::string::find(needle) != npos
contains(name, needle) ==
  \E i \in 0..(Len(name) - Len(needle)) :
     SubSeq(name, i + 1, i + Len(needle)) = needle

\* Module::getFunction on the module ir
Md_getFunction(ir, name) == IF name \in ir.functions THEN name ELSE NULL

\* EDDI::getFunctionDuplicate on the module ir
getFunctionDuplicateIn(ir, F) ==
  IF F = NULL \/ endswith(F, Suffix_dup) THEN F
  ELSE LET FnDup == Md_getFunction(ir, F \o Suffix_dup)
       IN  IF FnDup = NULL THEN Md_getFunction(ir, F \o Suffix_ret_dup) ELSE FnDup

\* EDDI::getFunctionFromDuplicate on the module ir
getFunctionFromDuplicateIn(ir, F) ==
  IF F = NULL \/ ~endswith(F, Suffix_dup) THEN F
  ELSE LET FnDup == Md_getFunction(ir, substrDropLast(F, 8))
       IN  IF FnDup = NULL THEN Md_getFunction(ir, substrDropLast(F, 4)) ELSE FnDup

\* Module::getGlobalVariable among the vtables of ir (NULL: none)
getVTable(ir, name) ==
  LET found == {k \in 1..Len(ir.vtables) : ir.vtables[k].name = name}
  IN  IF found = {} THEN NULL ELSE ir.vtables[Only(found)]

\* the decimal digits
Digit == <<"1", "2", "3", "4", "5", "6", "7", "8", "9">>

\* the name a new global variable gets: the one asked for, or, when it is
\* taken, that name with a number appended
RECURSIVE uniqueName(_, _, _)
uniqueName(ir, name, n) ==
  LET tried == IF n = 0 THEN name ELSE name \o <<".", Digit[n]>>
  IN  IF getVTable(ir, tried) = NULL THEN tried ELSE uniqueName(ir, name, n + 1)

\* isVTableStore: the vtable whose address the store writes; the value
\* operand is a GEP instruction or a GEP constant expression over a global
\* variable whose name contains "vtable"
isVTableStore(SInst) ==
  IF /\ SInst.kind \in {"GetElementPtrInst", "ConstantExpr"}
     /\ contains(SInst.base, Name_vtable)
  THEN SInst.base
  ELSE NULL

\* the vtable the first loop of fixDuplicatedConstructors finds in Fn: the
\* one of its first vtable store
findVTable(ir, Fn) ==
  LET S == ir.stores[Fn]
      at == {k \in 1..Len(S) : isVTableStore(S[k]) # NULL}
  IN  IF at = {} THEN NULL
      ELSE isVTableStore(S[CHOOSE k \in at : \A j \in at : k <= j])

\* the three tests on the initializer of the vtable: it is a
\* ConstantStruct, it has one field, the field is a ConstantArray
wellFormedInitializer(vtable) ==
  /\ vtable.shape \in {"struct of one array", "struct of two arrays", "struct of one zeroinitializer"}
  /\ vtable.shape # "struct of two arrays"
  /\ vtable.shape # "struct of one zeroinitializer"

\* variant of ModifiedElement: the duplicate as getFunctionDuplicate finds it
ModifiedElementAnyDuplicate(ir, Elem) ==
  IF Elem.isFunction /\ getFunctionDuplicateIn(ir, Elem.name) # NULL
  THEN FunctionElem(getFunctionDuplicateIn(ir, Elem.name))
  ELSE Elem

\* the element pushed to ModifiedElements for the element Elem
ModifiedElement(ir, Elem) ==
  IF Elem.isFunction
  THEN LET DupName == Elem.name \o Suffix_dup
           DupFunction == Md_getFunction(ir, DupName)
       IN  IF DupFunction # NULL THEN FunctionElem(DupFunction) ELSE Elem
  ELSE Elem

\* the new global variable NewVtable
NewVtableOf(ir, vtable) ==
  [name |-> uniqueName(ir, vtable.name \o Suffix_dup, 0),
   shape |-> vtable.shape,
   elems |-> [k \in 1..Len(vtable.elems) |-> ModifiedElement(ir, vtable.elems[k])],
   isConstant |-> vtable.isConstant,
   linkage |-> "ExternalLinkage",
   section |-> vtable.section]

\* the second loop: the value operand of every vtable store of FnDup that
\* is a GEP constant expression becomes a GEP into NewVtable
rewriteStore(SInst, NewVtable) ==
  IF isVTableStore(SInst) # NULL /\ SInst.kind = "ConstantExpr"
  THEN [SInst EXCEPT !.base = NewVtable.name, !.indices = <<0, 0, 2>>]
  ELSE SInst

\* fixDuplicatedConstructors from the k-th constructor of the iteration
\* order on; an initializer that is not well formed ends the whole function
RECURSIVE fixDuplicatedConstructorsFrom(_, _, _)
fixDuplicatedConstructorsFrom(ir, order, k) ==
  IF k > Len(order) THEN ir
  ELSE
    LET Fn == order[k]
        FnDup == getFunctionDuplicateIn(ir, Fn)
        vtableName == findVTable(ir, Fn)
        vtable == getVTable(ir, vtableName)
    IN  IF FnDup = NULL THEN fixDuplicatedConstructorsFrom(ir, order, k + 1)
        ELSE IF vtableName = NULL THEN fixDuplicatedConstructorsFrom(ir, order, k + 1)
        ELSE IF ~wellFormedInitializer(vtable) THEN ir
        ELSE
          LET NewVtable == NewVtableOf(ir, vtable)
              fixed == [ir EXCEPT
                          !.vtables = Append(@, NewVtable),
                          !.stores[FnDup] =
                             [j \in 1..Len(@) |-> rewriteStore(@[j], NewVtable)]]
          IN  fixDuplicatedConstructorsFrom(fixed, order, k + 1)

\* the orders in which a std::set of pointers may be iterated
Orders(S) ==
  {o \in [1..Cardinality(S) -> S] : \A i, j \in 1..Cardinality(S) : o[i] = o[j] => i = j}

\* the value operand of a store instruction
StoreOf(kind, base, indices) == [kind |-> kind, base |-> base, indices |-> indices]

\* a global variable holding a vtable
VTable(name, shape, elems) ==
  [name |-> name, shape |-> shape, elems |-> elems, isConstant |-> TRUE,
   linkage |-> "LinkOnceODRLinkage", section |-> ""]

\* duplicateFnArgs, for what the module gains: the function Fn_dup, with
\* the body of Fn cloned into it
duplicateFnArgsIn(ir, Fn) ==
  LET ClonedFunc == Fn \o Suffix_dup
  IN  [ir EXCEPT !.functions = @ \cup {ClonedFunc},
                 !.stores = [f \in DOMAIN @ \cup {ClonedFunc} |->
                               IF f = ClonedFunc THEN @[Fn] ELSE @[f]]]

\* the priority and the data every rebuilt entry of llvm.global_ctors gets
IntegerConstant == 65535
NullPtr == ConstantElem(NULL)

\* the struct NewCtor built for the entry ctorStr, whose constructor is a
\* function
NewCtor(ir, ctorStr) ==
  LET dupCtor == getFunctionDuplicateIn(ir, ctorStr.ctor.name)
  IN  [priority |-> IntegerConstant,
       ctor |-> FunctionElem(IF dupCtor = NULL THEN ctorStr.ctor.name ELSE dupCtor),
       data |-> NullPtr]

\* the vector Ctors: one new entry for each entry of the existing array
\* whose constructor is a function, in order
RECURSIVE CtorsFrom(_, _, _)
CtorsFrom(ir, ExistingArray, i) ==
  IF i > Len(ExistingArray) THEN <<>>
  ELSE IF ExistingArray[i].ctor.isFunction
       THEN <<NewCtor(ir, ExistingArray[i])>> \o CtorsFrom(ir, ExistingArray, i + 1)
       ELSE CtorsFrom(ir, ExistingArray, i + 1)

\* fixGlobalCtors
fixGlobalCtors(ir) ==
  LET GlobalCtors == ir.GlobalCtors
  IN  IF GlobalCtors = NULL THEN ir
      ELSE LET Ctors == IF GlobalCtors.shape = "ConstantArray"
                        THEN CtorsFrom(ir, GlobalCtors.entries, 1)
                        ELSE <<>>
           IN  [ir EXCEPT !.GlobalCtors =
                  [name |-> Name_global_ctors,
                   isConstant |-> GlobalCtors.isConstant,
                   linkage |-> "AppendingLinkage",
                   section |-> GlobalCtors.section,
                   shape |-> "ConstantArray",
                   entries |-> Ctors]]

(***************************************************************************)
(* The steps of run().  Every step is recorded in phaseLog with the        *)
(* function it works on (NULL for a step on the whole module).             *)
(***************************************************************************)
Logged(phase, Fn) == [phase |-> phase, Fn |-> Fn]

LoggedFns(log, phase) == {log[k].Fn : k \in {j \in 1..Len(log) : log[j].phase = phase}}

\* preprocess(Md): the sets it leaves are any sets of functions of the
\* module in which the constructors of toHardenFunctions are registered
RunPreprocess ==
  /\ runPc = "preprocess"
  /\ \E H \in SUBSET {f \in IR.functions : ~endswith(f, Suffix_dup)} :
       /\ toHardenFunctions' = H
       /\ toHardenConstructors' = H \cap {Name_A, Name_B}
  /\ phaseLog' = Append(phaseLog, Logged("preprocess", NULL))
  /\ runPc' = "duplicateGlobals"
  /\ UNCHANGED <<Md, toHardenVariables, toCheckVariables, JustAddedFns, prePc>>
  /\ UNCHANGED <<IR, DuplicatedFns>>
  /\ UNCHANGED runVars
  /\ UNCHANGED lookupVars
  /\ UNCHANGED callVars

\* duplicateGlobals(Md, DuplicatedInstructionMap)
RunDuplicateGlobals ==
  /\ runPc = "duplicateGlobals"
  /\ phaseLog' = Append(phaseLog, Logged("duplicateGlobals", NULL))
  /\ runPc' = "duplicateFnArgs"
  /\ UNCHANGED <<IR, DuplicatedFns>>
  /\ UNCHANGED preVars
  /\ UNCHANGED runVars
  /\ UNCHANGED lookupVars
  /\ UNCHANGED callVars

\* one round of the loop that creates the _dup functions
RunDuplicateFnArgs ==
  /\ runPc = "duplicateFnArgs"
  /\ \E Fn \in toHardenFunctions \ LoggedFns(phaseLog, "duplicateFnArgs") :
       /\ IF Fn \notin IR.declarations
          THEN /\ IR' = duplicateFnArgsIn(IR, Fn)
               /\ DuplicatedFns' = DuplicatedFns \cup {Fn \o Suffix_dup}
          ELSE UNCHANGED <<IR, DuplicatedFns>>
       /\ phaseLog' = Append(phaseLog, Logged("duplicateFnArgs", Fn))
  /\ UNCHANGED runPc
  /\ UNCHANGED preVars
  /\ UNCHANGED runVars
  /\ UNCHANGED lookupVars
  /\ UNCHANGED callVars

\* fixDuplicatedConstructors(Md), once the loop above is over
FixDuplicatedConstructors ==
  /\ runPc = "duplicateFnArgs"
  /\ toHardenFunctions \subseteq LoggedFns(phaseLog, "duplicateFnArgs")
  /\ \E order \in Orders(toHardenConstructors) :
       IR' = fixDuplicatedConstructorsFrom(IR, order, 1)
  /\ phaseLog' = Append(phaseLog, Logged("fixDuplicatedConstructors", NULL))
  /\ runPc' = "duplicateInstructions"
  /\ UNCHANGED DuplicatedFns
  /\ UNCHANGED preVars
  /\ UNCHANGED runVars
  /\ UNCHANGED lookupVars
  /\ UNCHANGED callVars

\* variant of RunCompile that does not wait for the constructor fix
RunCompileAnyTime ==
  /\ runPc \in {"duplicateFnArgs", "duplicateInstructions"}
  /\ \E Fn \in DuplicatedFns \ LoggedFns(phaseLog, "duplicateInstructions") :
       phaseLog' = Append(phaseLog, Logged("duplicateInstructions", Fn))
  /\ UNCHANGED <<IR, DuplicatedFns, runPc>>
  /\ UNCHANGED preVars
  /\ UNCHANGED runVars
  /\ UNCHANGED lookupVars
  /\ UNCHANGED callVars

\* one round of the loop over DuplicatedFns: the arguments are paired, the
\* instructions of Fn are duplicated and CreateErrBB is called
RunCompile ==
  /\ runPc = "duplicateInstructions"
  /\ \E Fn \in DuplicatedFns \ LoggedFns(phaseLog, "duplicateInstructions") :
       phaseLog' = Append(phaseLog, Logged("duplicateInstructions", Fn))
  /\ UNCHANGED <<IR, DuplicatedFns, runPc>>
  /\ UNCHANGED preVars
  /\ UNCHANGED runVars
  /\ UNCHANGED lookupVars
  /\ UNCHANGED callVars

\* the loop that erases InstructionsToRemove, once the loop above is over
RunRemove ==
  /\ runPc = "duplicateInstructions"
  /\ DuplicatedFns \subseteq LoggedFns(phaseLog, "duplicateInstructions")
  /\ phaseLog' = Append(phaseLog, Logged("eraseFromParent", NULL))
  /\ runPc' = "fixGlobalCtors"
  /\ UNCHANGED <<IR, DuplicatedFns>>
  /\ UNCHANGED preVars
  /\ UNCHANGED runVars
  /\ UNCHANGED lookupVars
  /\ UNCHANGED callVars

\* fixGlobalCtors(Md)
FixGlobalCtors ==
  /\ runPc = "fixGlobalCtors"
  /\ IR' = fixGlobalCtors(IR)
  /\ phaseLog' = Append(phaseLog, Logged("fixGlobalCtors", NULL))
  /\ runPc' = "done"
  /\ UNCHANGED DuplicatedFns
  /\ UNCHANGED preVars
  /\ UNCHANGED runVars
  /\ UNCHANGED lookupVars
  /\ UNCHANGED callVars

(***************************************************************************)
(* The modules run() is followed on.  The classes A and B have one         *)
(* constructor each, named after them; m, q and q_ret are other functions  *)
(* (q_ret is what FuncRetToRef leaves of q).  The body of a constructor is *)
(* a store of an ordinary value followed by at most one vtable store.      *)
(***************************************************************************)
BaseFunctions == {Name_A, Name_B, Name_m, Name_q, Name_q_ret}

SlotElems == {FunctionElem(Name_m), FunctionElem(Name_q), ConstantElem(Name_typeinfo)}

VTableArrays == UNION {[1..n -> SlotElems] : n \in 1..MaxSlots}

IndexLists == {<<0, 0, 2>>, <<0, 1, 2>>}

PlainStore == StoreOf("Argument", NULL, <<>>)

\* the vtable of A and the body of its constructor
InputsA(arrays) ==
  {[vtable |-> vt, stores |-> <<PlainStore>> \o st] :
     vt \in {VTable(VTableOf(Name_A), "struct of one array", e) : e \in arrays}
            \cup {VTable(VTableOf(Name_A), sh, <<>>) :
                    sh \in {"array", "struct of two arrays", "struct of one zeroinitializer"}},
     st \in {<<StoreOf(kind, VTableOf(Name_A), idx)>> :
               kind \in {"ConstantExpr", "GetElementPtrInst"}, idx \in IndexLists}
            \cup {<<StoreOf("ConstantExpr", VTableOf(Name_A), <<0, 0, 2>>),
                     StoreOf("ConstantExpr", VTableOf(Name_B), <<0, 0, 2>>)>>}
            \cup {<<>>}}

\* every vtable a store of the body names is a global variable of the module
StoresResolve(a, b) ==
  \A k \in 1..Len(a.stores) :
     a.stores[k].base = VTableOf(Name_B) => b.vtable # <<>>

\* the vtable of B (none when B uses the one of A) and the body of its
\* constructor
InputsB ==
  {[vtable |-> <<VTable(VTableOf(Name_B), "struct of one array", <<FunctionElem(Name_m)>>)>>,
    stores |-> <<StoreOf("ConstantExpr", VTableOf(Name_B), <<0, 0, 2>>)>>],
   [vtable |-> <<VTable(VTableOf(Name_B), "array", <<>>)>>,
    stores |-> <<StoreOf("ConstantExpr", VTableOf(Name_B), <<0, 0, 2>>)>>],
   [vtable |-> <<>>,
    stores |-> <<StoreOf("ConstantExpr", VTableOf(Name_A), <<0, 0, 2>>)>>]}

IRInput(a, b, declarations, GlobalCtors) ==
  [functions |-> BaseFunctions,
   declarations |-> declarations,
   stores |-> [f \in BaseFunctions |->
                 IF f \in declarations THEN <<>>
                 ELSE IF f = Name_A THEN a.stores
                 ELSE IF f = Name_B THEN b.stores
                 ELSE <<>>],
   vtables |-> <<a.vtable>> \o b.vtable,
   GlobalCtors |-> GlobalCtors]

\* the entries and the variable llvm.global_ctors
CtorEntries ==
  {[priority |-> p, ctor |-> c, data |-> d] :
     p \in {65535, 101},
     c \in {FunctionElem(Name_A), FunctionElem(Name_m), ConstantElem(NULL)},
     d \in {ConstantElem(NULL), ConstantElem(<<"g">>)}}

GlobalCtorsInputs ==
  {[name |-> Name_global_ctors, isConstant |-> k, linkage |-> "AppendingLinkage",
    section |-> s, shape |-> "ConstantArray", entries |-> e] :
     k \in BOOLEAN, s \in {"", ".ctors"},
     e \in UNION {[1..n -> CtorEntries] : n \in 1..MaxCtors}}
  \cup
  {[name |-> Name_global_ctors, isConstant |-> k, linkage |-> "AppendingLinkage",
    section |-> "", shape |-> "zeroinitializer", entries |-> <<>>] : k \in BOOLEAN}

\* a set as a sequence, in some order
RECURSIVE SetToSeq(_)
SetToSeq(S) ==
  IF S = {} THEN <<>>
  ELSE LET x == CHOOSE y \in S : TRUE IN <<x>> \o SetToSeq(S \ {x})

\* the module and the log after the loop that creates the _dup functions
RECURSIVE duplicateFnArgsAll(_, _, _)
duplicateFnArgsAll(ir, order, k) ==
  IF k > Len(order) THEN ir
  ELSE duplicateFnArgsAll(IF order[k] \in ir.declarations THEN ir
                          ELSE duplicateFnArgsIn(ir, order[k]), order, k + 1)

LogUntilDuplicateFnArgs(order) ==
  <<Logged("preprocess", NULL), Logged("duplicateGlobals", NULL)>>
  \o [k \in 1..Len(order) |-> Logged("duplicateFnArgs", order[k])]

\* the module and the log after the loop over DuplicatedFns and the removal
LogUntilRemove(order, orderDup) ==
  LogUntilDuplicateFnArgs(order)
  \o <<Logged("fixDuplicatedConstructors", NULL)>>
  \o [k \in 1..Len(orderDup) |-> Logged("duplicateInstructions", orderDup[k])]
  \o <<Logged("eraseFromParent", NULL)>>

\* the variables of preprocess when it has left the set H
PreLeft(H) ==
  /\ Md = [annot |-> [f \in Fns |-> "to_harden"], gannot |-> "to_harden",
           calls |-> [f \in Fns |-> {}], ctor |-> {}, vtable |-> NoVtable,
           minsts |-> {}]
  /\ toHardenFunctions = H
  /\ toHardenVariables = {}
  /\ toHardenConstructors = H \cap {Name_A, Name_B}
  /\ toCheckVariables = {}
  /\ JustAddedFns = {}
  /\ prePc = "done"

\* the sets of functions preprocess leaves in the modules below
HardenedSets ==
  {C \cup H : C \in {{Name_A}, {Name_A, Name_B}}, H \in SUBSET {Name_m, Name_q_ret}}

\* fixDuplicatedConstructors alone
InitVtables ==
  /\ RunIdle
  /\ \E H \in HardenedSets, a \in InputsA(VTableArrays), b \in InputsB,
        declarations \in SUBSET {Name_A, Name_B} :
       LET order == SetToSeq(H)
       IN  /\ StoresResolve(a, b)
           /\ PreLeft(H)
           /\ IR = duplicateFnArgsAll(IRInput(a, b, declarations, NULL), order, 1)
           /\ DuplicatedFns = {f \o Suffix_dup : f \in H \ declarations}
           /\ phaseLog = LogUntilDuplicateFnArgs(order)
  /\ runPc = "duplicateFnArgs"
  /\ LookupIdle
  /\ CallIdle

SpecVtables == InitVtables /\ [][FixDuplicatedConstructors]_vars

\* fixGlobalCtors alone
InitCtors ==
  /\ RunIdle
  /\ \E H \in HardenedSets, G \in GlobalCtorsInputs \cup {NULL},
        declarations \in SUBSET {Name_A} :
       LET order == SetToSeq(H)
           a == Only({x \in InputsA({<<FunctionElem(Name_m)>>}) :
                        /\ x.vtable.shape = "struct of one array"
                        /\ x.stores = <<PlainStore,
                                        StoreOf("ConstantExpr", VTableOf(Name_A), <<0, 0, 2>>)>>})
           b == Only({x \in InputsB : x.vtable = <<>>})
       IN  /\ PreLeft(H)
           /\ IR = fixDuplicatedConstructorsFrom(
                     duplicateFnArgsAll(IRInput(a, b, declarations, G), order, 1),
                     SetToSeq(H \cap {Name_A, Name_B}), 1)
           /\ DuplicatedFns = {f \o Suffix_dup : f \in H \ declarations}
           /\ phaseLog = LogUntilRemove(order, SetToSeq(DuplicatedFns))
  /\ runPc = "fixGlobalCtors"
  /\ LookupIdle
  /\ CallIdle

SpecCtors == InitCtors /\ [][FixGlobalCtors]_vars

\* run() from its first statement to its last
InitModule ==
  /\ RunIdle
  /\ PreLeft({})
  /\ \E a \in InputsA({<<FunctionElem(Name_m), ConstantElem(Name_typeinfo)>>}),
        G \in {g \in GlobalCtorsInputs : Len(g.entries) = 1 /\ g.isConstant /\ g.section = ""} :
       /\ a.vtable.shape = "struct of one array"
       /\ Len(a.stores) = 2 /\ a.stores[2].kind = "ConstantExpr"
       /\ G.entries[1].priority = 101 /\ G.entries[1].ctor.isFunction
       /\ IR = IRInput(a, Only({x \in InputsB : x.vtable = <<>>}), {Name_q_ret}, G)
  /\ DuplicatedFns = {}
  /\ phaseLog = <<>>
  /\ runPc = "preprocess"
  /\ LookupIdle
  /\ CallIdle

NextModule ==
  \/ RunPreprocess
  \/ RunDuplicateGlobals
  \/ RunDuplicateFnArgs
  \/ FixDuplicatedConstructors
  \/ RunCompile
  \/ RunRemove
  \/ FixGlobalCtors

SpecModule == InitModule /\ [][NextModule]_vars

(***************************************************************************)
(* Properties of EDDI::run.  StP is the function after a step.             *)
(***************************************************************************)
StP ==
  [insts |-> insts', layout |-> layout', D |-> DuplicatedInstructionMap',
   ErrBB |-> ErrBB', cfg |-> cfg', crash |-> FALSE]

Live(S, id) == id \in 1..Len(S.insts) /\ S.insts[id].op # "erased"

\* WalkStep hands instruction I to duplicateInstruction
Processes(I) ==
  /\ pc = "walk"
  /\ cur[2] = I
  /\ ~isValueDuplicated(DuplicatedInstructionMap, Inst(I))
  /\ WalkStep

(* C4: in every state of EDDI::run the map D is symmetric: <<a, b>> is an  *)
(* entry of D exactly when <<b, a>> is one, also after the clone of a      *)
(* store that is identical to the store has been erased.                   *)
C4_MapSymmetric ==
  \A p \in DuplicatedInstructionMap : <<p[2], p[1]>> \in DuplicatedInstructionMap

\* the walk has erased the clone of a store
C4_Witness ==
  /\ pc = "walk"
  /\ \E id \in 1..Len(insts) : insts[id].op = "erased"

\* the operand V has a duplicate: it is a key of D, or it is an inline GEP
\* over a global that is one
HasDuplicate(D, V) ==
  \/ Has(D, V)
  \/ isGEPConstantExpr(V) /\ Has(D, Glob(V[2]))

(* C7: when duplicateInstruction processes a store none of whose operands  *)
(* has a duplicate, the function afterwards holds the store and no clone   *)
(* of it, and no entry of D mentions, as key or as value, the store or     *)
(* its erased clone.                                                       *)
C7_TrivialStoreElision ==
  [][\A I \in 1..Len(insts) :
       (/\ Processes(I)
        /\ insts[I].op = "store"
        /\ \A j \in 1..Len(insts[I].ops) :
              ~HasDuplicate(DuplicatedInstructionMap, insts[I].ops[j]))
       => LET IClone == Len(insts) + 1
          IN  /\ Live(StP, I)
              /\ insts'[I] = insts[I]
              /\ insts'[IClone].op = "erased"
              /\ \A p \in DuplicatedInstructionMap' :
                    /\ p[1] \notin {Inst(I), Inst(IClone)}
                    /\ p[2] \notin {Inst(I), Inst(IClone)}]_vars

\* a store to the excluded global has been processed
C7_Witness ==
  /\ pc = "walk"
  /\ \E I \in 1..Len(insts) :
        /\ insts[I] = I_("store", "void", <<ConstInt, Glob(2)>>)
        /\ isValueDuplicated(DuplicatedInstructionMap, Inst(I))

\* the pairs <<original, clone>> of instructions of the function
ClonePairs ==
  {p \in DuplicatedInstructionMap :
     /\ isInstruction(p[1]) /\ isInstruction(p[2])
     /\ p[1][2] < p[2][2]
     /\ Live(St, p[1][2]) /\ Live(St, p[2][2])}

\* operand V2 of a clone is operand V1 of its original or the value D
\* pairs with it
SameOrPaired(V1, V2) ==
  \/ V2 = V1
  \/ Has(DuplicatedInstructionMap, V1) /\ Find(DuplicatedInstructionMap, V1) = V2

\* V1 is an inline GEP over a global and V2 the same GEP over the global D
\* pairs with it
ParallelGEP(V1, V2) ==
  /\ isGEPConstantExpr(V1)
  /\ Has(DuplicatedInstructionMap, Glob(V1[2]))
  /\ V2 = GEPExpr(Find(DuplicatedInstructionMap, Glob(V1[2]))[2])

(* C5, as amended: after EDDI::run, for every clone I' of an instruction I *)
(* and every operand slot j, operand j of I' is operand j of I, or the     *)
(* value D pairs with operand j of I, or - when operand j of I is an       *)
(* inline constant GEP over a global g - the same GEP over the duplicate   *)
(* of g.                                                                   *)
C5_OperandRewrite ==
  pc = "done" =>
    \A p \in ClonePairs :
       LET I == insts[p[1][2]]
           IClone == insts[p[2][2]]
       IN  /\ Len(IClone.ops) = Len(I.ops)
           /\ \A j \in 1..Len(I.ops) :
                 \/ SameOrPaired(I.ops[j], IClone.ops[j])
                 \/ ParallelGEP(I.ops[j], IClone.ops[j])

(* C5, as the claim states it: operand j of I' is operand j of I or the    *)
(* value D pairs with operand j of I.                                      *)
C5_AsClaimed ==
  pc = "done" =>
    \A p \in ClonePairs :
       LET I == insts[p[1][2]]
           IClone == insts[p[2][2]]
       IN  /\ Len(IClone.ops) = Len(I.ops)
           /\ \A j \in 1..Len(I.ops) : SameOrPaired(I.ops[j], IClone.ops[j])

\* the run is over and a PHI node, cloned before the instruction its
\* operand is, has a clone that uses the clone of that instruction
C5_Witness ==
  /\ pc = "done"
  /\ \E p \in ClonePairs :
        /\ insts[p[1][2]].op = "phi"
        /\ \E j \in 1..Len(insts[p[1][2]].ops) :
              LET V == insts[p[1][2]].ops[j]
              IN  /\ isInstruction(V)
                  /\ V[2] > p[1][2]
                  /\ insts[p[2][2]].ops[j] # V
                  /\ insts[p[2][2]].ops[j] = Find(DuplicatedInstructionMap, V)

\* ai' of the claim: the value D pairs with a, a itself when there is none
DupOrSelf(D, a) == IF Has(D, a) THEN Find(D, a) ELSE a

\* 2n arguments with every copy before its original: (a1', a1, ..) when
\* interleaved, (a1', .., an', a1, .., an) when segregated
CopiesFirstLayout(D, as, interleaved) ==
  LET n == Len(as)
  IN  [k \in 1..(2 * n) |->
         IF interleaved
         THEN IF k % 2 = 1 THEN DupOrSelf(D, as[(k + 1) \div 2]) ELSE as[k \div 2]
         ELSE IF k <= n THEN DupOrSelf(D, as[k]) ELSE as[k - n]]

\* 2n arguments with every original before its copy: (a1, a1', ..) when
\* interleaved, (a1, .., an, a1', .., an') when segregated
OriginalsFirstLayout(D, as, interleaved) ==
  LET n == Len(as)
  IN  [k \in 1..(2 * n) |->
         IF interleaved
         THEN IF k % 2 = 1 THEN as[(k + 1) \div 2] ELSE DupOrSelf(D, as[k \div 2])
         ELSE IF k <= n THEN as[k] ELSE DupOrSelf(D, as[k - n])]

\* the walk processes I, a direct call to a function that is not a _dup
\* variant, is not to_duplicate and has a _dup variant
RedirectsCall(I) ==
  /\ Processes(I)
  /\ insts[I].op = "call"
  /\ insts[I].callee # NULL
  /\ ~endswith(insts[I].callee, Suffix_dup)
  /\ ~startswith(FuncAnnotations(insts[I].callee), "to_duplicate")
  /\ getFunctionDuplicate(insts[I].callee) # NULL

\* after the step, the instruction before I is a new call to the _dup
\* variant of I's callee with the arguments args, that call has taken over
\* the uses of I, and I is queued for removal
ReplacedByCall(I, args) ==
  LET L == BlockInsts(StP, getParent(StP, I))
      k == IndexOf(L, I)
  IN  /\ k > 1
      /\ L[k - 1] > Len(insts)
      /\ insts'[L[k - 1]].op = "call"
      /\ insts'[L[k - 1]].callee = insts[I].callee \o Suffix_dup
      /\ insts'[L[k - 1]].ops = args
      /\ Users(StP, Inst(I)) = <<>>
      /\ InstructionsToRemove' = Append(InstructionsToRemove, I)

ToDuplicateSites ==
  {I \in 1..Len(FnBody.insts) :
     FnBody.insts[I].op = "call" /\ FnBody.insts[I].callee = Name_h}

\* the calls to that callee in the function as it is now
ToDuplicateCalls ==
  {c \in 1..Len(insts) : insts[c].op = "call" /\ insts[c].callee = Name_h}

\* c comes after I in the block of I
PlacedAfter(I, c) ==
  /\ getParent(St, c) = getParent(St, I)
  /\ IndexOf(BlockInsts(St, getParent(St, I)), c)
       > IndexOf(BlockInsts(St, getParent(St, I)), I)

(* C9: after EDDI::run, for every call site of the duplicated function to  *)
(* a callee annotated to_duplicate, the original call is still there with  *)
(* its original operands, D pairs it (both ways) with one clone placed     *)
(* after it that calls the same callee on the D-paired duplicates of the   *)
(* operands, and there are exactly two calls to the callee per call site.  *)
C9_ToDuplicateCall ==
  pc = "done" =>
    /\ Cardinality(ToDuplicateCalls) = 2 * Cardinality(ToDuplicateSites)
    /\ \A I \in ToDuplicateSites :
          /\ insts[I].op = "call"
          /\ insts[I].callee = Name_h
          /\ insts[I].ops = [j \in 1..Len(FnBody.insts[I].ops) |->
                               RemapParam(FnBody.insts[I].ops[j])]
          /\ Has(DuplicatedInstructionMap, Inst(I))
          /\ LET c == Find(DuplicatedInstructionMap, Inst(I))
             IN  /\ isInstruction(c)
                 /\ c \in {Inst(k) : k \in ToDuplicateCalls \ {I}}
                 /\ <<c, Inst(I)>> \in DuplicatedInstructionMap
                 /\ PlacedAfter(I, c[2])
                 /\ insts[c[2]].ops =
                      [j \in 1..Len(insts[I].ops) |->
                         DupOrSelf(DuplicatedInstructionMap, insts[I].ops[j])]

\* the run is over on a function that calls h(x, y), and the call has a
\* clone in D that calls h too
C9_Witness ==
  /\ pc = "done"
  /\ \E I \in ToDuplicateSites :
        /\ Has(DuplicatedInstructionMap, Inst(I))
        /\ Find(DuplicatedInstructionMap, Inst(I)) \in {Inst(k) : k \in ToDuplicateCalls \ {I}}
        /\ Len(insts[I].ops) = NParams

\* the walk processes I, a direct call to a function that has no _dup
\* variant and is not to_duplicate
KeepsCall(I) ==
  /\ Processes(I)
  /\ insts[I].op = "call"
  /\ insts[I].callee # NULL
  /\ getFunctionDuplicate(insts[I].callee) = NULL
  /\ ~startswith(FuncAnnotations(getFunctionFromDuplicate(insts[I].callee)),
                 "to_duplicate")

\* after the step, among the instructions the step has put right after I,
\* there is a load from P followed by a store of the loaded value to PDup
ResyncAfter(I, P, PDup) ==
  LET L == BlockInsts(StP, getParent(StP, I))
      i == IndexOf(L, I)
  IN  \E k \in (i + 1)..(Len(L) - 1) :
         /\ \A m \in (i + 1)..(k + 1) : L[m] > Len(insts)
         /\ insts'[L[k]].op = "load"
         /\ insts'[L[k]].ops = <<P>>
         /\ insts'[L[k + 1]].op = "store"
         /\ insts'[L[k + 1]].ops = <<Inst(L[k]), PDup>>

\* the pointer arguments of call I that have a duplicate after the step
PointerArgsWithDuplicate(I) ==
  {insts[I].ops[j] : j \in {j \in 1..Len(insts[I].ops) :
      /\ isPointerTy(TypeOf(St, insts[I].ops[j]))
      /\ Has(DuplicatedInstructionMap', insts[I].ops[j])}}

(* C10: when the walk processes a direct call whose callee has no _dup     *)
(* variant and is not to_duplicate, the call is left as it is, it is not   *)
(* queued for removal, and right after it there is, for every pointer      *)
(* argument that has a duplicate in D - instruction, function argument or  *)
(* global - a load from the pointer followed by a store of the loaded      *)
(* value to the duplicate pointer.                                         *)
C10_ResyncAfterCall ==
  [][\A I \in 1..Len(insts) :
       KeepsCall(I) =>
         /\ insts'[I] = insts[I]
         /\ InstructionsToRemove' = InstructionsToRemove
         /\ \A c \in (Len(insts) + 1)..Len(insts') : insts'[c].op # "call"
         /\ \A P \in PointerArgsWithDuplicate(I) :
               ResyncAfter(I, P, Find(DuplicatedInstructionMap', P))]_vars

\* a call ext(p, @g1) with p an alloca has been processed: the pair
\* load p / store to the duplicate of p follows it, and @g1 has a duplicate
C10_Witness ==
  /\ pc = "walk"
  /\ \E I \in 1..Len(insts) :
        /\ insts[I].op = "call" /\ insts[I].callee = Name_ext
        /\ isInstruction(insts[I].ops[1])
        /\ Has(DuplicatedInstructionMap, Glob(1))
        /\ LET L == BlockInsts(St, getParent(St, I))
               i == IndexOf(L, I)
           IN  /\ i + 2 <= Len(L)
               /\ insts[L[i + 1]].op = "load"
               /\ insts[L[i + 1]].ops = <<insts[I].ops[1]>>
               /\ insts[L[i + 2]].op = "store"
               /\ insts[L[i + 2]].ops =
                    <<Inst(L[i + 1]), Find(DuplicatedInstructionMap, insts[I].ops[1])>>

\* I is a synchronization instruction the configured mode selects for a
\* check: a store or a call when checks at stores or calls are on (with
\* selective checking only in a block with several successors), a
\* terminator of several successors when checks at branches are on
SelectedForCheck(I) ==
  LET selective == cfg.SELECTIVE_CHECKING = 1 => ManySuccessors(St, I)
  IN  \/ insts[I].op = "store" /\ cfg.CHECK_AT_STORES /\ selective
      \/ insts[I].op = "call" /\ cfg.CHECK_AT_CALLS /\ selective
      \/ insts[I].op \in {"br", "ret"} /\ cfg.CHECK_AT_BRANCH /\ ManySuccessors(St, I)

\* the comparisons that value v is the AND of, after the step
RECURSIVE AndOperands(_)
AndOperands(v) ==
  IF isInstruction(v) /\ insts'[v[2]].op = "and"
  THEN AndOperands(insts'[v[2]].ops[1]) \cup AndOperands(insts'[v[2]].ops[2])
  ELSE {v}

\* after the step, block V ends with (a) a conditional branch on the AND of
\* all the comparisons of V, to block this when true and to the error block
\* when false, or (b) a branch to block this, V having no comparison
EndsVerification(V, this) ==
  LET Cmps == {Inst(c) : c \in {c \in Range(V.insts) : insts'[c].op = "icmp"}}
      T == IF V.insts = <<>> THEN Erased ELSE insts'[V.insts[Len(V.insts)]]
  IN  /\ T.op = "br"
      /\ \/ /\ Cmps # {}
            /\ T.succs = <<this, ErrBB'>>
            /\ Len(T.ops) = 1
            /\ AndOperands(T.ops[1]) = Cmps
         \/ /\ Cmps = {}
            /\ T.succs = <<this>>
            /\ T.ops = <<>>

\* after the step, block P ends with a branch to block V only
BranchesOnlyTo(P, V) ==
  /\ P.insts # <<>>
  /\ insts'[P.insts[Len(P.insts)]].op = "br"
  /\ insts'[P.insts[Len(P.insts)]].succs = <<V>>

(* C6: for every synchronization instruction I selected by the configured  *)
(* mode, once the walk has processed I the block immediately before I's    *)
(* block is a new verification block V that ends with (a) a conditional    *)
(* branch on the AND of all the comparisons emitted, whose true target is  *)
(* I's block and whose false target is the error block, or (b) an          *)
(* unconditional branch to I's block when there is no comparison; and the  *)
(* split-off predecessor P, the block before V, branches only to V.        *)
C6_CheckCompleteness ==
  [][\A I \in 1..Len(insts) :
       (Processes(I) /\ SelectedForCheck(I)) =>
         LET this == getParent(StP, I)
             b == BlockIdxOf(StP, this)
         IN  /\ b > 2
             /\ layout'[b - 1].id \notin {layout[k].id : k \in 1..Len(layout)}
             /\ EndsVerification(layout'[b - 1], this)
             /\ BranchesOnlyTo(layout'[b - 2], layout'[b - 1].id)]_vars

\* a store of a loaded array to a global has been processed with checks at
\* stores on: the block before the store's block holds extractvalue
\* instructions
C6_Witness ==
  /\ pc = "walk"
  /\ cfg.CHECK_AT_STORES
  /\ \E I \in 1..Len(insts) :
        /\ insts[I].op = "store"
        /\ isInstruction(insts[I].ops[1])
        /\ isArrayTy(TypeOf(St, insts[I].ops[1]))
        /\ isValueDuplicated(DuplicatedInstructionMap, Inst(I))
        /\ LET b == BlockIdxOf(St, getParent(St, I))
           IN  /\ b > 2
               /\ \E c \in Range(layout[b - 1].insts) : insts[c].op = "extractvalue"

\* the blocks that call DataCorruption_Handler
ErrorBlocks ==
  {layout[b].id : b \in {b \in 1..Len(layout) :
      \E c \in Range(layout[b].insts) :
         insts[c].op = "call" /\ insts[c].callee = Name_DataCorruption_Handler}}

\* the blocks a fault-free run goes through from block bid on: every check
\* passes, and a loop is left after one turn
RECURSIVE FaultFreePath(_, _)
FaultFreePath(bid, visited) ==
  LET T == getTerminator(St, bid)
      succs == IF T = 0 THEN <<>>
               ELSE SelectSeq(insts[T].succs,
                              LAMBDA b : b \notin ErrorBlocks /\ b \notin visited /\ b # bid)
  IN  IF succs = <<>> THEN <<bid>>
      ELSE <<bid>> \o FaultFreePath(succs[1], visited \cup {bid})

\* the function called by call instruction r, leaving out a _dup suffix;
\* NULL for an indirect call
CalledName(r) ==
  IF r.callee # NULL /\ endswith(r.callee, Suffix_dup)
  THEN SubSeq(r.callee, 1, Len(r.callee) - Len(Suffix_dup))
  ELSE r.callee

RECURSIVE Concat(_)
Concat(ss) == IF ss = <<>> THEN <<>> ELSE Head(ss) \o Concat(Tail(ss))

\* the calls the hardened function makes on a fault-free run, in order
CallsOfHardened ==
  LET path == FaultFreePath(layout[1].id, {})
      ids == Concat([k \in 1..Len(path) |->
                       SelectSeq(BlockInsts(St, path[k]),
                                 LAMBDA c : insts[c].op = "call")])
  IN  [k \in 1..Len(ids) |-> CalledName(insts[ids[k]])]

\* the calls the original function makes on the same run, in order; a call
\* to a to_duplicate function is meant to be made twice
CallsOfOriginal ==
  LET ids == SelectSeq(Concat(FnBody.blocks),
                       LAMBDA c : FnBody.insts[c].op = "call")
  IN  Concat([k \in 1..Len(ids) |->
                IF startswith(FuncAnnotations(FnBody.insts[ids[k]].callee), "to_duplicate")
                THEN <<FnBody.insts[ids[k]].callee, FnBody.insts[ids[k]].callee>>
                ELSE <<FnBody.insts[ids[k]].callee>>])

(* C2: runtime equivalence on fault-free runs, in what it requires of the  *)
(* calls: a call is an observable output, so on the run that passes every  *)
(* check and takes each loop once the hardened function makes the calls    *)
(* the original function makes, in the same order - each call to f being a *)
(* call to f_dup, each call to a to_duplicate function made twice - and    *)
(* the run does not end in a block without terminator.                     *)
C2_RuntimeEquivalence ==
  pc = "done" =>
    /\ CallsOfHardened = CallsOfOriginal
    /\ LET path == FaultFreePath(layout[1].id, {})
       IN  getTerminator(St, path[Len(path)]) # 0

\* the run is over on a function that calls f and the hardened function
\* calls f_dup on its fault-free run, behind a passed check
C2_Witness ==
  /\ pc = "done"
  /\ cfg.CHECK_AT_CALLS
  /\ Len(FaultFreePath(layout[1].id, {})) > 1
  /\ \E k \in 1..Len(CallsOfHardened) : CallsOfHardened[k] = Name_f
  /\ \E c \in 1..Len(insts) : insts[c].op = "call" /\ insts[c].callee = Name_f \o Suffix_dup

\* value v is X, or is computed in block B from X
RECURSIVE Derives(_, _, _)
Derives(v, X, B) ==
  \/ v = X
  \/ /\ isInstruction(v)
     /\ v[2] \in Range(B.insts)
     /\ \E j \in 1..Len(insts'[v[2]].ops) : Derives(insts'[v[2]].ops[j], X, B)

\* after the step, block B holds a comparison of X, or of what is computed
\* from X, with the same of Y
ComparedIn(B, X, Y) ==
  \E c \in Range(B.insts) :
     /\ insts'[c].op = "icmp"
     /\ Derives(insts'[c].ops[1], X, B)
     /\ Derives(insts'[c].ops[2], Y, B)

\* the operands of I that are SSA values D pairs with another value
PairedOperands(I) ==
  {insts[I].ops[j] : j \in {j \in 1..Len(insts[I].ops) :
      /\ insts[I].ops[j][1] \in {"inst", "arg"}
      /\ Has(DuplicatedInstructionMap', insts[I].ops[j])
      /\ Find(DuplicatedInstructionMap', insts[I].ops[j]) # insts[I].ops[j]}}

(* C3: fault detection, in what it requires of the checks: a bit flipped   *)
(* in a D-paired SSA value that a synchronization instruction I uses goes  *)
(* to the error block before I only if the value is compared with its      *)
(* duplicate before I; so once the walk has processed a synchronization    *)
(* instruction selected by the mode, the block before I's block compares   *)
(* every D-paired SSA operand of I with its duplicate.                     *)
C3_FaultDetection ==
  [][\A I \in 1..Len(insts) :
       (Processes(I) /\ SelectedForCheck(I)) =>
         LET b == BlockIdxOf(StP, getParent(StP, I))
         IN  \A V \in PairedOperands(I) :
                /\ b > 1
                /\ ComparedIn(layout'[b - 1], V, Find(DuplicatedInstructionMap', V))]_vars

\* a check has been emitted that compares an instruction with its
\* duplicate and leads to the error block when they differ
C3_Witness ==
  /\ pc = "walk"
  /\ \E b \in 1..Len(layout) :
        /\ \E c \in Range(layout[b].insts) :
              /\ insts[c].op = "icmp"
              /\ isInstruction(insts[c].ops[1])
              /\ Has(DuplicatedInstructionMap, insts[c].ops[1])
              /\ insts[c].ops[2] = Find(DuplicatedInstructionMap, insts[c].ops[1])
              /\ insts[c].ops[2] # insts[c].ops[1]
        /\ getTerminator(St, layout[b].id) # 0
        /\ ErrBB \in Range(insts[getTerminator(St, layout[b].id)].succs)

\* the edges <<terminator, successor index>> that lead to block bid
EdgesTo(S, bid) ==
  {e \in (1..Len(S.insts)) \X (1..2) :
     /\ Live(S, e[1])
     /\ e[2] <= Len(S.insts[e[1]].succs)
     /\ S.insts[e[1]].succs[e[2]] = bid}

\* block bid of S is a call to DataCorruption_Handler and an unreachable
IsErrorBlock(S, bid) ==
  /\ \E b \in 1..Len(S.layout) : S.layout[b].id = bid
  /\ LET L == BlockInsts(S, bid)
     IN  /\ Len(L) = 2
         /\ S.insts[L[1]].op = "call"
         /\ S.insts[L[1]].callee = Name_DataCorruption_Handler
         /\ S.insts[L[1]].ops = <<>>
         /\ S.insts[L[2]].op = "unreachable"

(* C11: the step CreateErrBB removes the template error block from the     *)
(* function, leaves no terminator that targets it, gives every edge that   *)
(* targeted it a new block of its own - no two such edges share a block -  *)
(* made of one call to DataCorruption_Handler and an unreachable, and      *)
(* changes no other edge.                                                  *)
C11_ErrBBSynthesis ==
  [][CreateErrBB =>
       /\ \A b \in 1..Len(layout') : layout'[b].id # ErrBB
       /\ EdgesTo(StP, ErrBB) = {}
       /\ \A e \in EdgesTo(St, ErrBB) :
             LET copy == insts'[e[1]].succs[e[2]]
             IN  /\ \A b \in 1..Len(layout) : layout[b].id # copy
                 /\ IsErrorBlock(StP, copy)
                 /\ EdgesTo(StP, copy) = {e}
       /\ \A T \in 1..Len(insts) : \A j \in 1..Len(insts[T].succs) :
             insts[T].succs[j] # ErrBB => insts'[T].succs[j] = insts[T].succs[j]]_vars

\* CreateErrBB has run on a function with two checks that can fail: two
\* branches lead to two different error blocks and the template is gone
C11_Witness ==
  /\ pc = "remove"
  /\ \A b \in 1..Len(layout) : layout[b].id # ErrBB
  /\ \E T1, T2 \in 1..Len(insts) :
        /\ T1 # T2
        /\ Len(insts[T1].succs) = 2 /\ Len(insts[T2].succs) = 2
        /\ IsErrorBlock(St, insts[T1].succs[2])
        /\ IsErrorBlock(St, insts[T2].succs[2])
        /\ insts[T1].succs[2] # insts[T2].succs[2]

(* C12: after preprocess, no function annotated `exclude` or               *)
(* `to_duplicate` is in toHardenFunctions, whatever path reaches it: a     *)
(* direct call from a hardened function, a call instruction that uses a    *)
(* protected variable, or a slot of the vtable of a protected constructor. *)
C12_ExcludedNeverHardened ==
  prePc = "done" => \A f \in toHardenFunctions : Hardenable(Md, f)

\* preprocess is over on a module where a hardened function calls a
\* function annotated `exclude`, which is not in toHardenFunctions
C12_Witness ==
  /\ prePc = "done"
  /\ \E f \in toHardenFunctions : \E g \in Md.calls[f] :
        /\ startswith(Md.annot[g], "exclude")
        /\ g \notin toHardenFunctions

\* P is a global that has a duplicate in D, or an inline GEP over one
ProtectedPtr(P) ==
  /\ P[1] \in {"glob", "gep"}
  /\ P[2] \in 1..Len(ModuleGlobals)
  /\ Has(DuplicatedInstructionMap, Glob(P[2]))

\* the same pointer into the duplicate of the global
DupPtr(P) ==
  IF P[1] = "glob" THEN Find(DuplicatedInstructionMap, Glob(P[2]))
  ELSE GEPExpr(Find(DuplicatedInstructionMap, Glob(P[2]))[2])

\* in the list body of instructions, every store to a protected global is
\* accompanied by a store to the duplicate of the global
StoresAccompanied(body) ==
  \A I \in 1..Len(body) :
     (body[I].op = "store" /\ ProtectedPtr(body[I].ops[2])) =>
        \E c \in 1..Len(body) :
           /\ body[c].op = "store"
           /\ body[c].ops[2] = DupPtr(body[I].ops[2])
           /\ body[c].ops[1] \in {body[I].ops[1],
                                  DupOrSelf(DuplicatedInstructionMap, body[I].ops[1])}

(* C13: after the pass, every store to a duplicated global g is            *)
(* accompanied by a store of the corresponding value to g_dup, in every    *)
(* function of the module: in the hardened function Fn_dup and in the      *)
(* function Fn it was cloned from, which stays in the module and is not in *)
(* DuplicatedFns.                                                          *)
C13_StoresEverywhere ==
  pc = "done" => StoresAccompanied(insts) /\ StoresAccompanied(FnBody.insts)

\* the pass is over on a function that stores to @g1: Fn_dup stores to @g1
\* and to its duplicate
C13_Witness ==
  /\ pc = "done"
  /\ \E I \in 1..Len(FnBody.insts) :
        FnBody.insts[I].op = "store" /\ FnBody.insts[I].ops[2] = Glob(1)
  /\ \E I, c \in 1..Len(insts) :
        /\ insts[I].op = "store" /\ insts[I].ops[2] = Glob(1)
        /\ insts[c].op = "store"
        /\ insts[c].ops[2] = Find(DuplicatedInstructionMap, Glob(1))
        /\ insts[c].ops[2] # Glob(1)

\* global g of the module qualifies for duplication
Qualifies(g) ==
  /\ ~g.isConstant
  /\ ~g.isReservedName
  /\ ~g.isMetadataInfo
  /\ g.annot \notin {"exclude", "runtime_sig", "run_adj_sig"}
  /\ ~g.endsWithDup

DuplicatesOf(V) ==
  {k \in (Len(IR.vtables) + 1)..Len(IR'.vtables) :
     LET name == IR'.vtables[k].name
         asked == V.name \o Suffix_dup
     IN  Len(name) >= Len(asked) /\ SubSeq(name, 1, Len(asked)) = asked}

\* the element e of a vtable is a function that has a `_dup` variant
HasDupVariant(e) == e.isFunction /\ (e.name \o Suffix_dup) \in IR.functions

(***************************************************************************)
(* C15: for each protected constructor whose vtable V has a well-formed    *)
(* initializer, the duplicated vtable V_dup has an array of the length of  *)
(* the one of V, in which slot i is the `_dup` variant of slot i of V when *)
(* that slot is a function that has a `_dup` variant, and is slot i of V   *)
(* otherwise.                                                              *)
(***************************************************************************)
C15_VtableSlots ==
  [][FixDuplicatedConstructors =>
       \A c \in toHardenConstructors :
          LET V == getVTable(IR, findVTable(IR, c))
          IN  (findVTable(IR, c) # NULL /\ wellFormedInitializer(V)) =>
                \A k \in DuplicatesOf(V) :
                   LET V_dup == IR'.vtables[k]
                   IN  /\ Len(V_dup.elems) = Len(V.elems)
                       /\ \A i \in 1..Len(V.elems) :
                            V_dup.elems[i] =
                              IF HasDupVariant(V.elems[i])
                              THEN FunctionElem(V.elems[i].name \o Suffix_dup)
                              ELSE V.elems[i]]_vars

\* the vtable <<m, q, typeinfo>> of A has been duplicated into
\* <<m_dup, q, typeinfo>>: m has the variant m_dup, q has none (the module
\* holds q_ret_dup only)
C15_Witness ==
  /\ runPc = "duplicateInstructions"
  /\ Name_A \in toHardenConstructors
  /\ (Name_q_ret \o Suffix_dup) \in IR.functions
  /\ getVTable(IR, VTableOf(Name_A)) # NULL
  /\ getVTable(IR, VTableOf(Name_A)).elems
       = <<FunctionElem(Name_m), FunctionElem(Name_q), ConstantElem(Name_typeinfo)>>
  /\ getVTable(IR, VTableOf(Name_A) \o Suffix_dup) # NULL
  /\ getVTable(IR, VTableOf(Name_A) \o Suffix_dup).elems
       = <<FunctionElem(Name_m \o Suffix_dup), FunctionElem(Name_q),
           ConstantElem(Name_typeinfo)>>

\* the constructor field fixGlobalCtors is to leave for the entry e
DuplicateOrOriginal(e) ==
  IF e.ctor.isFunction /\ getFunctionDuplicateIn(IR, e.ctor.name) # NULL
  THEN FunctionElem(getFunctionDuplicateIn(IR, e.ctor.name))
  ELSE e.ctor

(***************************************************************************)
(* C16: after fixGlobalCtors the array of llvm.global_ctors has as many    *)
(* entries as before, in the same order; entry i keeps the priority and    *)
(* the data of the original entry i, and its constructor is the duplicate  *)
(* of the original constructor when there is one, the original constructor *)
(* otherwise; the variable keeps its name, appending linkage, section and  *)
(* constantness.                                                           *)
(***************************************************************************)
C16_GlobalCtorsRewritten ==
  [][(FixGlobalCtors /\ IR.GlobalCtors # NULL) =>
       LET old == IR.GlobalCtors
           new == IR'.GlobalCtors
       IN  /\ Len(new.entries) = Len(old.entries)
           /\ \A i \in 1..Len(old.entries) :
                /\ new.entries[i].priority = old.entries[i].priority
                /\ new.entries[i].data = old.entries[i].data
                /\ new.entries[i].ctor = DuplicateOrOriginal(old.entries[i])
           /\ new.name = old.name
           /\ new.linkage = "AppendingLinkage"
           /\ new.section = old.section
           /\ new.isConstant = old.isConstant]_vars

\* fixGlobalCtors is about to run on the one entry {101, A, g}, A having
\* the duplicate A_dup
C16_Witness ==
  /\ runPc = "fixGlobalCtors"
  /\ IR.GlobalCtors # NULL
  /\ IR.GlobalCtors.shape = "ConstantArray"
  /\ IR.GlobalCtors.entries
       = <<[priority |-> 101, ctor |-> FunctionElem(Name_A), data |-> ConstantElem(<<"g">>)]>>
  /\ getFunctionDuplicateIn(IR, Name_A) = Name_A \o Suffix_dup

(***************************************************************************)
(* Properties of the order of the phases of EDDI::run.                     *)
(***************************************************************************)
\* the positions of phaseLog at which the phase was run (on Fn)
At(phase) == {k \in 1..Len(phaseLog) : phaseLog[k].phase = phase}
AtFn(phase, Fn) == {k \in At(phase) : phaseLog[k].Fn = Fn}

Precedes(K, L) == \A k \in K : \A l \in L : k < l

\* every position of L is after a position of K
Follows(L, K) == \A l \in L : \E k \in K : k < l

\* the phases a function goes through, in the order the claim gives them
RankClaimed(phase) ==
  CASE phase = "preprocess" -> 0
    [] phase = "duplicateGlobals" -> 1
    [] phase = "duplicateFnArgs" -> 2
    [] phase = "duplicateInstructions" -> 3
    [] phase = "eraseFromParent" -> 3
    [] phase = "fixDuplicatedConstructors" -> 4
    [] phase = "fixGlobalCtors" -> 5

\* the same, with the constructor fix between the cloning and the bodies
RankInCode(phase) ==
  CASE phase = "preprocess" -> 0
    [] phase = "duplicateGlobals" -> 1
    [] phase = "duplicateFnArgs" -> 2
    [] phase = "fixDuplicatedConstructors" -> 3
    [] phase = "duplicateInstructions" -> 4
    [] phase = "eraseFromParent" -> 4
    [] phase = "fixGlobalCtors" -> 5

\* the phase at position k concerns the function Fn or its duplicate
Concerns(k, Fn) ==
  phaseLog[k].Fn \in {NULL, Fn, Fn \o Suffix_dup}

PreprocessFirst ==
  /\ Follows(At("duplicateFnArgs"), At("preprocess"))
  /\ Precedes(At("preprocess"), At("duplicateFnArgs"))

GlobalsOnceBeforeInstructions ==
  /\ Cardinality(At("duplicateGlobals")) <= 1
  /\ Follows(At("duplicateInstructions"), At("duplicateGlobals"))

ConstructorsAfterBodies ==
  \A k \in At("fixDuplicatedConstructors") :
     \A Fn \in DuplicatedFns : \E b \in AtFn("duplicateInstructions", Fn) : b < k

GlobalCtorsLast ==
  \A k \in At("fixGlobalCtors") :
     /\ Precedes(At("duplicateFnArgs") \cup At("duplicateInstructions")
                   \cup At("fixDuplicatedConstructors"), {k})
     /\ At("fixDuplicatedConstructors") # {}
     /\ \A Fn \in DuplicatedFns : AtFn("duplicateInstructions", Fn) # {}

NoPhaseReentered(Rank(_)) ==
  \A Fn \in BaseFunctions :
     \A k, l \in 1..Len(phaseLog) :
        (k < l /\ Concerns(k, Fn) /\ Concerns(l, Fn)) =>
           Rank(phaseLog[k].phase) <= Rank(phaseLog[l].phase)

\* the constructor fix runs once every `_dup` function exists and before
\* the body of any of them is duplicated
ConstructorsBetween ==
  \A k \in At("fixDuplicatedConstructors") :
     /\ \A Fn \in toHardenFunctions : \E c \in AtFn("duplicateFnArgs", Fn) : c < k
     /\ Precedes({k}, At("duplicateInstructions"))
     /\ \A Fn \in toHardenFunctions \ IR.declarations : (Fn \o Suffix_dup) \in IR.functions

C18_ClosureTerminates == <>(prePc = "done")

\* the function loop is about to process, again, the constructor 1 whose
\* vtable lists function 1 itself
C18_Witness ==
  /\ prePc = "fns"
  /\ JustAddedFns = {1}
  /\ 1 \in toHardenFunctions
  /\ 1 \in toHardenConstructors
  /\ Md.vtable[1] = {1}

(***************************************************************************)
(* C19: every verification block V created by addConsistencyChecks ends    *)
(* with exactly one terminator, and when no comparison was produced for    *)
(* the operands of I, V ends with an unconditional branch to the block of  *)
(* I, whether or not the handling of the operands has put instructions in  *)
(* V.                                                                      *)
(***************************************************************************)
C19_VerificationTerminator ==
  [][\A I \in 1..Len(insts) :
       (Processes(I) /\ SelectedForCheck(I)) =>
         LET this == getParent(StP, I)
             b == BlockIdxOf(StP, this)
         IN  (b > 1 /\ layout'[b - 1].id \notin {layout[k].id : k \in 1..Len(layout)}) =>
               LET V == layout'[b - 1].insts
                   Terminators == {k \in 1..Len(V) : isTerminator(insts'[V[k]])}
                   Cmps == {k \in 1..Len(V) : insts'[V[k]].op = "icmp"}
               IN  /\ Terminators = {Len(V)}
                   /\ V # <<>>
                   /\ Cmps = {} =>
                        /\ insts'[V[Len(V)]].op = "br"
                        /\ insts'[V[Len(V)]].succs = <<this>>
                        /\ insts'[V[Len(V)]].ops = <<>>]_vars

\* a block of the function holds element extracts and nothing else: it has
\* no terminator
C19_Witness ==
  \E b \in 1..Len(layout) :
     /\ layout[b].insts # <<>>
     /\ \A c \in Range(layout[b].insts) : insts[c].op = "extractvalue"

\* the walk processes I, an indirect call
RewritesIndirectCall(I) ==
  /\ Processes(I)
  /\ insts[I].op = "call"
  /\ insts[I].callee = NULL

\* the arguments of call I, the called operand of an indirect call left out
ArgOperands(I) ==
  IF insts[I].callee = NULL THEN SubSeq(insts[I].ops, 1, Len(insts[I].ops) - 1)
  ELSE insts[I].ops

\* after the step, the instruction before I is a new call with twice the
\* arguments of I, and every parameter attribute of slot i of I is on the
\* two slots of that call that hold ai and its copy
AttributesOnBothSlots(I) ==
  LET L == BlockInsts(StP, getParent(StP, I))
      k == IndexOf(L, I)
      n == Len(ArgOperands(I))
      slots(i) == IF cfg.AlternateMemMapEnabled THEN {2 * i - 1, 2 * i} ELSE {i, n + i}
  IN  /\ k > 1
      /\ L[k - 1] > Len(insts)
      /\ insts'[L[k - 1]].op = "call"
      /\ Len(insts'[L[k - 1]].attrs) >= 2 * n
      /\ \A i \in 1..n : \A slot \in slots(i) :
            insts[I].attrs[i] \subseteq insts'[L[k - 1]].attrs[slot]

(***************************************************************************)
(* C20: when a call with arguments a1..an is rewritten to a call with      *)
(* doubled arguments, for a direct callee redirected to f_dup and for an   *)
(* indirect callee cast to the doubled function type alike, every          *)
(* parameter attribute of the original slot i is on both slots of the new  *)
(* call that hold ai and ai' in the layout in use.                         *)
(***************************************************************************)
C20_AttributePropagation ==
  [][\A I \in 1..Len(insts) :
       (RedirectsCall(I) \/ RewritesIndirectCall(I)) => AttributesOnBothSlots(I)]_vars

\* a call f(x, y) whose arguments carry attributes has been replaced by a
\* call to f_dup that carries none
C20_Witness ==
  \E k \in 1..Len(InstructionsToRemove) :
     LET I == InstructionsToRemove[k]
         L == BlockInsts(St, getParent(St, I))
         i == IndexOf(L, I)
     IN  /\ insts[I].callee = Name_f
         /\ insts[I].attrs = <<{"noundef"}, {"noundef", "nonnull"}>>
         /\ i > 1
         /\ insts[L[i - 1]].callee = Name_f \o Suffix_dup
         /\ insts[L[i - 1]].attrs = <<>>

\* the names of the vtables the step has made from the vtable V
DuplicateNames(V) == {IR'.vtables[k].name : k \in DuplicatesOf(V)}

(***************************************************************************)
(* C21: in the duplicated constructor f_dup, the store that writes the     *)
(* address of the vtable V is rewritten so that its stored value is a      *)
(* constant GEP into V_dup with the index list of the original GEP into V, *)
(* whatever that list is; the stores of f_dup that address another vtable  *)
(* are not redirected to V_dup.                                            *)
(***************************************************************************)
C21_VtableStoreRewrite ==
  [][FixDuplicatedConstructors =>
       \A f \in toHardenConstructors :
          LET V == getVTable(IR, findVTable(IR, f))
              f_dup == getFunctionDuplicateIn(IR, f)
          IN  (f_dup # NULL /\ findVTable(IR, f) # NULL /\ DuplicateNames(V) # {}) =>
                \A j \in 1..Len(IR.stores[f_dup]) :
                   LET old == IR.stores[f_dup][j]
                       new == IR'.stores[f_dup][j]
                   IN  /\ isVTableStore(old) = V.name =>
                            /\ new.kind = "ConstantExpr"
                            /\ new.base \in DuplicateNames(V)
                            /\ new.indices = old.indices
                       /\ isVTableStore(old) \notin {NULL, V.name} =>
                            new.base \notin DuplicateNames(V)]_vars

\* the constructor A stores the address of its vtable with the index list
\* <<0, 1, 2>>, and A_dup stores the address of the duplicated vtable with the
\* index list <<0, 0, 2>>
C21_Witness ==
  /\ runPc = "duplicateInstructions"
  /\ Name_A \in toHardenConstructors
  /\ (Name_A \o Suffix_dup) \in IR.functions
  /\ Len(IR.stores[Name_A]) = 2
  /\ IR.stores[Name_A][2] = StoreOf("ConstantExpr", VTableOf(Name_A), <<0, 1, 2>>)
  /\ IR.stores[Name_A \o Suffix_dup][2]
       = StoreOf("ConstantExpr", VTableOf(Name_A) \o Suffix_dup, <<0, 0, 2>>)

(***************************************************************************)
(* C22: when the vtable initializer of a protected constructor is not a    *)
(* struct of one field wrapping a constant array, or the constructor has   *)
(* no `_dup`, only that constructor is skipped: every other protected      *)
(* constructor with a well-formed vtable, wherever it comes in the         *)
(* iteration order, gets its V_dup created and its store in f_dup          *)
(* rewritten.                                                              *)
(***************************************************************************)
C22_LocalRecovery ==
  [][FixDuplicatedConstructors =>
       \A f \in toHardenConstructors :
          LET V == getVTable(IR, findVTable(IR, f))
              f_dup == getFunctionDuplicateIn(IR, f)
          IN  (f_dup # NULL /\ findVTable(IR, f) # NULL /\ wellFormedInitializer(V)) =>
                /\ DuplicateNames(V) # {}
                /\ \A j \in 1..Len(IR.stores[f_dup]) :
                      isVTableStore(IR.stores[f_dup][j]) = V.name =>
                         IR'.stores[f_dup][j].base \in DuplicateNames(V)]_vars

\* fixDuplicatedConstructors has run: A and B are protected and have A_dup
\* and B_dup, the vtable of A is not well formed, that of B is, and B has
\* no duplicated vtable
C22_Witness ==
  /\ runPc = "duplicateInstructions"
  /\ toHardenConstructors = {Name_A, Name_B}
  /\ {Name_A \o Suffix_dup, Name_B \o Suffix_dup} \subseteq IR.functions
  /\ findVTable(IR, Name_A) = VTableOf(Name_A)
  /\ ~wellFormedInitializer(getVTable(IR, VTableOf(Name_A)))
  /\ findVTable(IR, Name_B) = VTableOf(Name_B)
  /\ wellFormedInitializer(getVTable(IR, VTableOf(Name_B)))
  /\ getVTable(IR, VTableOf(Name_B) \o Suffix_dup) = NULL
  /\ IR.stores[Name_B \o Suffix_dup] = IR.stores[Name_B]

(***************************************************************************)
(* EDDI::run on functions whose blocks differ in their numbers of          *)
(* predecessors and successors.  "cond": the entry block holds the body    *)
(* and ends with a conditional branch to two returning blocks (no          *)
(* predecessor, two successors).  "join": the entry block branches         *)
(* conditionally to a block that falls through and to the block that       *)
(* holds the body and returns (two predecessors, no successor).  The       *)
(* build is FDSC or EDDI with the checks at stores and calls on.           *)
(***************************************************************************)
BranchingFunction(shape, prog) ==
  LET n == Len(prog)
  IN  IF shape = "cond"
      THEN [insts |-> [k \in 1..(n + 3) |->
                         IF k <= n THEN Resolve(prog, k, 0)
                         ELSE IF k = n + 1
                         THEN Term_("br", <<Last(prog, n + 1, {"int"}, 0, Param(0))>>,
                                    <<2, 3>>)
                         ELSE Term_("ret", <<>>, <<>>)],
            blocks |-> <<[k \in 1..(n + 1) |-> k], <<n + 2>>, <<n + 3>>>>]
      ELSE [insts |-> [k \in 1..(n + 3) |->
                         IF k = 1 THEN Term_("br", <<Param(0)>>, <<2, 3>>)
                         ELSE IF k = 2 THEN Term_("br", <<>>, <<3>>)
                         ELSE IF k <= n + 2 THEN Resolve(prog, k - 2, 2)
                         ELSE Term_("ret", <<>>, <<>>)],
            blocks |-> <<<<1>>, <<2>>, [k \in 1..(n + 1) |-> k + 2]>>]

BranchingFunctions ==
  {BranchingFunction(x[1], x[2]) :
     x \in {y \in {"cond", "join"} \X SeqsUpTo(Menu \ {"phi"}, MaxInstrs) :
              Len(y[2]) >= 1}}

InitBranching ==
  /\ PreDone
  /\ cfg \in {Mode(alt, TRUE, TRUE, TRUE, sel) : alt \in BOOLEAN, sel \in {0, 1}}
  /\ FnBody \in BranchingFunctions
  /\ globals = ModuleGlobals
  /\ insts = <<>>
  /\ layout = <<>>
  /\ DuplicatedInstructionMap = {}
  /\ InstructionsToRemove = <<>>
  /\ ErrBB = 0
  /\ pc = "start"
  /\ argI = 0
  /\ cur = <<0, 0>>
  /\ ModIdle

SpecBranching == InitBranching /\ [][Next]_vars

\* the block of F that holds instruction I, and the blocks of F whose
\* terminator leads to block b
BlockIn(F, I) == CHOOSE b \in 1..Len(F.blocks) : I \in Range(F.blocks[b])
PredecessorsIn(F, b) ==
  {p \in 1..Len(F.blocks) : b \in Range(F.insts[F.blocks[p][Len(F.blocks[p])]].succs)}
SuccessorsIn(F, b) == Range(F.insts[F.blocks[b][Len(F.blocks[b])]].succs)

\* a consistency check stands at instruction I of the function: I is the
\* first instruction of its block that the function had before the pass,
\* and the block before it is one the pass has made
CheckedAt(I) ==
  /\ Live(St, I)
  /\ LET b == BlockIdx(St, I)
         L == layout[b].insts
     IN  /\ \A j \in 1..(IndexOf(L, I) - 1) : L[j] > Len(FnBody.insts)
         /\ b > 1
         /\ layout[b - 1].id > Len(FnBody.blocks) + 1

\* the stores and calls of the function that the build checks at
SynchronizationPoints ==
  {I \in 1..Len(FnBody.insts) :
     \/ FnBody.insts[I].op = "store" /\ cfg.CHECK_AT_STORES
     \/ FnBody.insts[I].op = "call" /\ cfg.CHECK_AT_CALLS}

(***************************************************************************)
(* C23: when the walk over Fn_dup has ended, in FDSC mode a consistency    *)
(* check stands at a store or a call exactly when the block that holds it  *)
(* has more than one predecessor, and in EDDI mode a check stands at       *)
(* every store and every call.                                             *)
(***************************************************************************)
C23_SelectiveChecking ==
  pc = "errbb" =>
    \A I \in SynchronizationPoints :
       CheckedAt(I) <=>
         (cfg.SELECTIVE_CHECKING = 1 =>
            Cardinality(PredecessorsIn(FnBody, BlockIn(FnBody, I))) > 1)

\* FDSC mode, the walk has ended: a store stands in a block with no
\* predecessor and two successors and has a check, or in a block with two
\* predecessors and no successor and has none
C23_Witness ==
  /\ pc = "errbb"
  /\ cfg.SELECTIVE_CHECKING = 1
  /\ \E I \in SynchronizationPoints :
        LET b == BlockIn(FnBody, I)
        IN  /\ FnBody.insts[I].op = "store"
            /\ \/ /\ PredecessorsIn(FnBody, b) = {}
                  /\ Cardinality(SuccessorsIn(FnBody, b)) = 2
                  /\ CheckedAt(I)
               \/ /\ Cardinality(PredecessorsIn(FnBody, b)) = 2
                  /\ SuccessorsIn(FnBody, b) = {}
                  /\ ~CheckedAt(I)

Name_hello == <<"h", "e", "l", "l", "o">>

LookupNames == {Name_f, Name_calc, Name_h, Name_hello, Name_q, Name_q_ret}

\* function n as the module holds it
NameVariants(n, v) ==
  CASE v = "absent" -> {}
    [] v = "alone" -> {n}
    [] v = "_dup" -> {n, n \o Suffix_dup}
    [] v = "_ret_dup" -> {n, n \o Suffix_ret_dup}

NameModules ==
  {UNION {NameVariants(n, c[n]) : n \in LookupNames} :
     c \in [LookupNames -> {"absent", "alone", "_dup", "_ret_dup"}]}

InitNames ==
  /\ PreLeft({})
  /\ RunIdle
  /\ \E F \in NameModules : IR = [functions |-> F]
  /\ DuplicatedFns = {}
  /\ phaseLog = <<>>
  /\ runPc = "lookup"
  /\ LookupIdle
  /\ CallIdle

\* getFunctionDuplicate(Fn) for a function Fn of the module
GetFunctionDuplicate ==
  /\ runPc = "lookup"
  /\ \E F \in IR.functions :
       /\ lookupFn' = F
       /\ lookupDup' = getFunctionDuplicateIn(IR, F)
  /\ runPc' = "duplicate"
  /\ UNCHANGED <<IR, DuplicatedFns, phaseLog, lookupOrig>>
  /\ UNCHANGED callVars
  /\ UNCHANGED preVars
  /\ UNCHANGED runVars

\* getFunctionFromDuplicate of what getFunctionDuplicate returned
GetFunctionFromDuplicate ==
  /\ runPc = "duplicate"
  /\ lookupOrig' = getFunctionFromDuplicateIn(IR, lookupDup)
  /\ runPc' = "original"
  /\ UNCHANGED <<IR, DuplicatedFns, phaseLog, lookupFn, lookupDup>>
  /\ UNCHANGED callVars
  /\ UNCHANGED preVars
  /\ UNCHANGED runVars

NextNames == GetFunctionDuplicate \/ GetFunctionFromDuplicate

SpecNames == InitNames /\ [][NextNames]_vars

\* the module holds a duplicate variant of function F
HasDuplicateVariant(F) ==
  \/ (F \o Suffix_dup) \in IR.functions
  \/ (F \o Suffix_ret_dup) \in IR.functions

(***************************************************************************)
(* C25: for every function f of the module that has a variant f_dup or     *)
(* f_ret_dup, getFunctionFromDuplicate(getFunctionDuplicate(f)) is f,      *)
(* whatever the length of the names and whatever other functions the       *)
(* module holds; and getFunctionDuplicate of a function whose name ends    *)
(* in `_dup` is that function.                                             *)
(***************************************************************************)
C25_NameRoundTrip ==
  /\ (runPc = "original" /\ HasDuplicateVariant(lookupFn)) => lookupOrig = lookupFn
  /\ (runPc = "duplicate" /\ endswith(lookupFn, Suffix_dup)) => lookupDup = lookupFn

\* the round trip has been made from f, whose duplicate f_dup has fewer
\* than eight characters, or from hello in a module that also holds h
C25_Witness ==
  /\ runPc = "original"
  /\ \/ /\ lookupFn = Name_f
        /\ lookupDup = Name_f \o Suffix_dup
        /\ lookupOrig = Name_f \o Suffix_dup
     \/ /\ lookupFn = Name_hello
        /\ lookupDup = Name_hello \o Suffix_dup
        /\ Name_h \in IR.functions
        /\ lookupOrig = Name_h

\* the instructions of Fn_dup that D pairs with instruction I
PartnersOf(I) ==
  {p[2][2] : p \in {q \in DuplicatedInstructionMap :
                      q[1] = Inst(I) /\ isInstruction(q[2])}}
  \cup {p[1][2] : p \in {q \in DuplicatedInstructionMap :
                         q[2] = Inst(I) /\ isInstruction(q[1])}}

\* the instructions the body of Fn had, and those the pass has added
OriginalInstructions == 1..Len(FnBody.insts)
AddedInstructions == (1..Len(insts)) \ OriginalInstructions

\* the classes of instructions that the pass creates by cloning only
ClonedOnly == {"alloca", "add", "phi"}

RedirectedSites(g) ==
  {I \in OriginalInstructions :
     /\ FnBody.insts[I].op = "call"
     /\ FnBody.insts[I].callee = g}
CallsTo(g) ==
  {c \in 1..Len(insts) : insts[c].op = "call" /\ insts[c].callee = g}
Redirected ==
  {g \in ModuleFunctions :
     ~endswith(g, Suffix_dup) /\ (g \o Suffix_dup) \in ModuleFunctions}

\* how many times instruction I stands in InstructionsToRemove
TimesScheduled(I) ==
  Cardinality({k \in 1..Len(InstructionsToRemove) : InstructionsToRemove[k] = I})

(***************************************************************************)
(* C27: after EDDI::run, for every function g that has a variant g_dup,    *)
(* Fn_dup holds one call to g_dup for each direct call site of g in the    *)
(* body of Fn, each with twice the arguments of the site; the call of the  *)
(* site is gone and was scheduled for removal exactly once; and no call to *)
(* a `_dup` function was scheduled for removal.                            *)
(***************************************************************************)
C27_CallsRewrittenOnce ==
  pc = "done" =>
    /\ \A g \in Redirected :
          /\ Cardinality(CallsTo(g \o Suffix_dup)) = Cardinality(RedirectedSites(g))
          /\ \A I \in RedirectedSites(g) :
                /\ ~Live(St, I)
                /\ TimesScheduled(I) = 1
                /\ \A c \in CallsTo(g \o Suffix_dup) :
                      Len(insts[c].ops) = 2 * Len(FnBody.insts[I].ops)
    /\ \A k \in 1..Len(InstructionsToRemove) :
          InstructionsToRemove[k] \in OriginalInstructions

\* the run is over on a function whose body calls calc with its first
\* parameter, a call that the argument-users loop reaches before the walk
C27_Witness ==
  /\ pc = "done"
  /\ \E I \in RedirectedSites(Name_calc) : FnBody.insts[I].ops = <<Param(0)>>
  /\ CallsTo(Name_calc \o Suffix_dup) # {}

\* duplicateFnArgs on a function of n parameters: the slot (from 0) of the
\* `_dup` function that stands for parameter i in the cloned body
ParamsOf(interleaved, n, i) == IF ~interleaved THEN n + i ELSE i * 2

\* EDDI::run on the `_dup` function of a function of n parameters: the slot
\* that D pairs with slot s
PairedSlot(interleaved, n, s) ==
  IF ~interleaved
  THEN IF s < n THEN s + n ELSE s - n
  ELSE IF s % 2 = 0 THEN s + 1 ELSE s - 1

(***************************************************************************)
(* C28: in both argument layouts, when the walk redirects a direct call    *)
(* g(a1..an) to g_dup, the new call passes ai in the slot that             *)
(* duplicateFnArgs makes stand for parameter i in the body of g_dup, and   *)
(* the duplicate of ai (ai itself when it has none) in the slot that       *)
(* EDDI::run pairs with that slot in D.                                    *)
(***************************************************************************)
C28_StreamConsistency ==
  [][\A I \in 1..Len(insts) :
       RedirectsCall(I) =>
         LET L == BlockInsts(StP, getParent(StP, I))
             k == IndexOf(L, I)
             n == Len(insts[I].ops)
             alt == cfg.AlternateMemMapEnabled
         IN  /\ k > 1
             /\ L[k - 1] > Len(insts)
             /\ insts'[L[k - 1]].callee = insts[I].callee \o Suffix_dup
             /\ Len(insts'[L[k - 1]].ops) = 2 * n
             /\ \A i \in 0..(n - 1) :
                   LET s == ParamsOf(alt, n, i)
                   IN  /\ insts'[L[k - 1]].ops[s + 1] = insts[I].ops[i + 1]
                       /\ insts'[L[k - 1]].ops[PairedSlot(alt, n, s) + 1]
                            = DupOrSelf(DuplicatedInstructionMap', insts[I].ops[i + 1])]_vars

\* alternate-memmap is on and a call f(x, y) has been redirected: the call
\* to f_dup passes the duplicates x' and y' in the slots 0 and 2 and x and
\* y in the slots 1 and 3
C28_Witness ==
  /\ cfg.AlternateMemMapEnabled
  /\ pc = "walk"
  /\ \E c \in 1..Len(insts) :
        /\ insts[c].op = "call"
        /\ insts[c].callee = Name_f \o Suffix_dup
        /\ insts[c].ops = <<Arg(1), Arg(0), Arg(3), Arg(2)>>
        /\ <<Arg(0), Arg(1)>> \in DuplicatedInstructionMap
        /\ <<Arg(2), Arg(3)>> \in DuplicatedInstructionMap

(***************************************************************************)
(* getPtrFinalValue and isUsedByStore, followed call by call and           *)
(* iteration by iteration, on the functions of PointerFunctions: two       *)
(* allocas p and q, at most MaxStores stores of p, q or an integer through *)
(* p or q, in one block or in the body of a loop.                          *)
(***************************************************************************)
\* number of stores in the function
MaxStores == 2
\* number of activations of getPtrFinalValue that the stack holds
MaxDepth == 4

PointerStores ==
  {I_("store", "void", <<v, ptr>>) :
     v \in {Inst(1), Inst(2), ConstInt}, ptr \in {Inst(1), Inst(2)}}

PointerFunction(shape, stores) ==
  LET n == Len(stores)
      allocas == <<I_("alloca", "ptr", <<>>), I_("alloca", "ptr", <<>>)>>
  IN  IF shape = "ret"
      THEN [insts |-> allocas \o stores \o <<Term_("ret", <<>>, <<>>)>>,
            layout |-> <<[id |-> 1, insts |-> [k \in 1..(n + 3) |-> k]]>>]
      ELSE [insts |-> allocas \o stores
                        \o <<Term_("br", <<>>, <<2>>),
                             Term_("br", <<ConstInt>>, <<2, 3>>),
                             Term_("ret", <<>>, <<>>)>>,
            layout |-> <<[id |-> 1, insts |-> <<1, 2, n + 3>>],
                         [id |-> 2, insts |-> [k \in 1..(n + 1) |-> k + 2 + (IF k > n THEN 1 ELSE 0)]],
                         [id |-> 3, insts |-> <<n + 5>>]>>]

PointerFunctions ==
  {PointerFunction(shape, stores) :
     shape \in {"ret", "loop"}, stores \in SeqsUpTo(PointerStores, MaxStores)}

InitPointers ==
  /\ PreDone
  /\ cfg = Mode(FALSE, TRUE, TRUE, TRUE, 0)
  /\ FnBody = <<>>
  /\ globals = ModuleGlobals
  /\ \E F \in PointerFunctions : insts = F.insts /\ layout = F.layout
  /\ DuplicatedInstructionMap = {}
  /\ InstructionsToRemove = <<>>
  /\ ErrBB = 0
  /\ pc = "call"
  /\ argI = 0
  /\ cur = <<0, 0>>
  /\ ModIdle

\* what the steps below leave alone
CallFrame ==
  /\ UNCHANGED <<cfg, FnBody, globals, insts, layout, DuplicatedInstructionMap,
                 InstructionsToRemove, ErrBB, argI, cur>>
  /\ UNCHANGED preVars
  /\ UNCHANGED <<IR, DuplicatedFns, phaseLog, runPc>>
  /\ UNCHANGED lookupVars

\* getPtrFinalValue(V) is called
CallGetPtrFinalValue ==
  /\ pc = "call"
  /\ \E V \in {Inst(1), Inst(2)} : activation' = V
  /\ depth' = 1
  /\ pc' = "getPtrFinalValue"
  /\ UNCHANGED <<usedBy, usersLeft, worklist, reachable, ret>>
  /\ CallFrame

\* one activation of getPtrFinalValue: it returns NULL or V, or calls
\* itself on the value that the first store through V stores
GetPtrFinalValue ==
  /\ pc = "getPtrFinalValue"
  /\ LET V == activation
         us == Users(St, V)
         K == {k \in 1..Len(us) :
                 insts[us[k]].op = "store" /\ insts[us[k]].ops[2] = V}
         SI == insts[us[CHOOSE k \in K : \A j \in K : k <= j]]
     IN  IF ~isPointerTy(TypeOf(St, V)) \/ K = {}
         THEN /\ ret' = NULL
              /\ pc' = "returned"
              /\ depth' = 0
              /\ UNCHANGED activation
         ELSE IF isPointerTy(TypeOf(St, SI.ops[1]))
         THEN /\ depth < MaxDepth
              /\ activation' = SI.ops[1]
              /\ depth' = depth + 1
              /\ UNCHANGED <<ret, pc>>
         ELSE /\ ret' = V
              /\ pc' = "returned"
              /\ depth' = 0
              /\ UNCHANGED activation
  /\ UNCHANGED <<usedBy, usersLeft, worklist, reachable>>
  /\ CallFrame

\* isUsedByStore(I, Use) is called
CallIsUsedByStore ==
  /\ pc = "call"
  /\ \E I \in {1, 2}, Use \in 1..Len(insts) :
       /\ usedBy' = <<I, Use>>
       /\ usersLeft' = Users(St, Inst(I))
  /\ pc' = "users"
  /\ UNCHANGED <<activation, depth, worklist, reachable, ret>>
  /\ CallFrame

\* the head of the for loop over the users of I
IsUsedByStoreUser ==
  /\ pc = "users"
  /\ IF usersLeft = <<>>
     THEN /\ ret' = <<"int", 0>>
          /\ pc' = "returned"
          /\ UNCHANGED <<usersLeft, worklist, reachable>>
     ELSE /\ usersLeft' = Tail(usersLeft)
          /\ IF insts[Head(usersLeft)].op = "store" /\ Head(usersLeft) # usedBy[2]
             THEN /\ worklist' = <<getParent(St, Head(usersLeft))>>
                  /\ reachable' = {}
                  /\ pc' = "worklist"
             ELSE UNCHANGED <<worklist, reachable, pc>>
          /\ UNCHANGED ret
  /\ UNCHANGED <<activation, depth, usedBy>>
  /\ CallFrame

\* the for loop over successors(front): worklist and reachable afterwards
RECURSIVE PushSuccessors(_, _, _, _)
PushSuccessors(succs, k, wl, rs) ==
  IF k > Len(succs) THEN <<wl, rs>>
  ELSE IF succs[k] \notin rs
  THEN PushSuccessors(succs, k + 1, Append(wl, succs[k]), rs \cup {succs[k]})
  ELSE PushSuccessors(succs, k + 1, wl, rs)

\* one iteration of while (!worklist.empty()), or its end
IsUsedByStoreVisit ==
  /\ pc = "worklist"
  /\ IF worklist = <<>>
     THEN /\ pc' = "users"
          /\ UNCHANGED <<worklist, reachable, ret>>
     ELSE LET front == Head(worklist)
              T == getTerminator(St, front)
              P == PushSuccessors(IF T = 0 THEN <<>> ELSE insts[T].succs, 1,
                                  Tail(worklist), reachable)
          IN  IF front = getParent(St, usedBy[1])
              THEN /\ ret' = <<"int", 1>>
                   /\ pc' = "returned"
                   /\ UNCHANGED <<worklist, reachable>>
              ELSE /\ worklist' = P[1]
                   /\ reachable' = P[2]
                   /\ UNCHANGED <<ret, pc>>
  /\ UNCHANGED <<activation, depth, usedBy, usersLeft>>
  /\ CallFrame

NextPointers ==
  \/ CallGetPtrFinalValue
  \/ GetPtrFinalValue
  \/ CallIsUsedByStore
  \/ IsUsedByStoreUser
  \/ IsUsedByStoreVisit

SpecPointers == InitPointers /\ [][NextPointers]_vars

\* the two functions are sequential code: the call made takes its next
\* step whenever it has one
SpecPointersFair == SpecPointers /\ WF_vars(NextPointers)

MaxMarkGlobals == 1
MaxMarkFunctions == 2

Str_exclude == <<"e", "x", "c", "l", "u", "d", "e">>
Str_excluded == <<"e", "x", "c", "l", "u", "d", "e", "d">>
Str_to_duplicate == <<"t", "o", "_", "d", "u", "p", "l", "i", "c", "a", "t", "e">>
Str_to_harden == <<"t", "o", "_", "h", "a", "r", "d", "e", "n">>
Str_llvm == <<"l", "l", "v", "m", ".">>
Name_g == <<"g">>
Name_llvm_used == <<"l", "l", "v", "m", ".", "u", "s", "e", "d">>
Name_str_annotation_exclude == <<".", "s", "t", "r", ".", "a", "n", "n", "o", "t", "a", "t", "i", "o", "n", ".", "e", "x", "c", "l", "u", "d", "e">>

\* StringRef::starts_with
starts_with(s, prefix) ==
  Len(s) >= Len(prefix) /\ SubSeq(s, 1, Len(prefix)) = prefix

MarkAnnotations == {NULL, Str_exclude, Str_excluded, Str_to_duplicate, Str_to_harden}
Definitions == {"strong", "weak", "declaration"}

MarkGlobals ==
  {[name |-> n, def |-> d, annot |-> a] :
     n \in {Name_g, Name_llvm_used}, d \in Definitions, a \in MarkAnnotations}
MarkFunctions ==
  {[name |-> Name_f, def |-> d, annot |-> a] : d \in Definitions, a \in MarkAnnotations}

MarkInputs ==
  {[globals |-> gs, functions |-> fs, annotated |-> <<>>, it |-> 0] :
     gs \in SeqsUpTo(MarkGlobals, MaxMarkGlobals),
     fs \in SeqsUpTo(MarkFunctions, MaxMarkFunctions)}

\* GlobalValue::isStrongDefinitionForLinker
isStrongDefinitionForLinker(v) == v.def = "strong"

\* toExclude as the variant that looks at the presence of an entry only
toExcludeIfAbsent(v) == v.annot = NULL

\* toExclude: FuncAnnotations has no entry for the value, or one that starts
\* with neither `exclude` nor `to_duplicate`
toExclude(v) ==
  \/ v.annot = NULL
  \/ /\ ~starts_with(v.annot, Str_exclude)
     /\ ~starts_with(v.annot, Str_to_duplicate)

\* the constant string `exclude`, a private global with an initializer
AnnotationStringGlobal ==
  [name |-> Name_str_annotation_exclude, def |-> "strong", annot |-> NULL]

InitMark ==
  /\ PreLeft({})
  /\ RunIdle
  /\ IR \in MarkInputs
  /\ DuplicatedFns = {}
  /\ phaseLog = <<>>
  /\ runPc = "run"
  /\ LookupIdle
  /\ CallIdle

MarkFrame ==
  /\ UNCHANGED <<DuplicatedFns, phaseLog>>
  /\ UNCHANGED preVars
  /\ UNCHANGED runVars
  /\ UNCHANGED lookupVars
  /\ UNCHANGED callVars

\* the head of run: FuncAnnotations is read and AnnotationStringGlobal is
\* added to the globals of the module
CreateAnnotationString ==
  /\ runPc = "run"
  /\ IR' = [IR EXCEPT !.globals = Append(@, AnnotationStringGlobal), !.it = 1]
  /\ runPc' = "globals"
  /\ MarkFrame

\* one turn of the loop over Md.globals(), or its end
MarkGlobal ==
  /\ runPc = "globals"
  /\ IF IR.it > Len(IR.globals)
     THEN /\ IR' = [IR EXCEPT !.it = 1]
          /\ runPc' = "functions"
     ELSE LET GV == IR.globals[IR.it]
              isReservedName == starts_with(GV.name, Str_llvm)
          IN  /\ IR' = [IR EXCEPT
                          !.annotated =
                             IF /\ isStrongDefinitionForLinker(GV)
                                /\ ~isReservedName
                                /\ toExclude(GV)
                             THEN Append(@, <<"global", IR.it>>) ELSE @,
                          !.it = @ + 1]
              /\ UNCHANGED runPc
  /\ MarkFrame

\* one turn of the loop over the functions of Md, or its end
MarkFunction ==
  /\ runPc = "functions"
  /\ IF IR.it > Len(IR.functions)
     THEN /\ IR' = [IR EXCEPT !.it = 0]
          /\ runPc' = "done"
     ELSE LET F == IR.functions[IR.it]
          IN  /\ IR' = [IR EXCEPT
                          !.annotated =
                             IF isStrongDefinitionForLinker(F) /\ toExclude(F)
                             THEN Append(@, <<"function", IR.it>>) ELSE @,
                          !.it = @ + 1]
              /\ UNCHANGED runPc
  /\ MarkFrame

NextMark == CreateAnnotationString \/ MarkGlobal \/ MarkFunction

SpecMark == InitMark /\ [][NextMark]_vars

\* how many `exclude` annotations the pass has added to value v
TimesAnnotated(v) ==
  Cardinality({k \in 1..Len(IR.annotated) : IR.annotated[k] = v})

\* the value has an annotation that starts with `exclude` or `to_duplicate`
AlreadyMarked(r) ==
  /\ r.annot # NULL
  /\ starts_with(r.annot, Str_exclude) \/ starts_with(r.annot, Str_to_duplicate)

(***************************************************************************)
(* C30: after MarkToExclude::run, the pass has added one `exclude`         *)
(* annotation to every function that is a strong definition and is not     *)
(* already annotated `exclude` or `to_duplicate`, and to every global      *)
(* variable of which the same holds and whose name does not start with     *)
(* `llvm.`; it has added none to any other value; so every function that   *)
(* is a strong definition has an annotation `exclude` or `to_duplicate`.   *)
(***************************************************************************)
C30_MarkToExclude ==
  runPc = "done" =>
    /\ \A j \in 1..Len(IR.functions) :
          LET F == IR.functions[j]
          IN  /\ TimesAnnotated(<<"function", j>>) =
                   IF F.def = "strong" /\ ~AlreadyMarked(F) THEN 1 ELSE 0
              /\ F.def = "strong" =>
                   AlreadyMarked(F) \/ TimesAnnotated(<<"function", j>>) > 0
    /\ \A i \in 1..Len(IR.globals) :
          LET GV == IR.globals[i]
          IN  TimesAnnotated(<<"global", i>>) =
                IF /\ GV.def = "strong"
                   /\ ~AlreadyMarked(GV)
                   /\ ~starts_with(GV.name, Str_llvm)
                THEN 1 ELSE 0

\* the pass has ended on a module with a global g annotated `to_harden`, a
\* function annotated `to_harden` and a weak function without annotation:
\* the first two have got the annotation, the weak function has not
C30_Witness ==
  /\ runPc = "done"
  /\ Len(IR.functions) = 2
  /\ Len(IR.globals) = 2
  /\ IR.functions[1] = [name |-> Name_f, def |-> "strong", annot |-> Str_to_harden]
  /\ IR.functions[2] = [name |-> Name_f, def |-> "weak", annot |-> NULL]
  /\ IR.globals[1] = [name |-> Name_g, def |-> "strong", annot |-> Str_to_harden]
  /\ TimesAnnotated(<<"function", 1>>) = 1
  /\ TimesAnnotated(<<"function", 2>>) = 0
  /\ TimesAnnotated(<<"global", 1>>) = 1

====
